---- MODULE Spec2Model ----
(***************************************************************************)
(* bt-go: the staging store (internal/staging), the backup drain of the   *)
(* service (internal/bt/service.go), the atomic backup commit of the      *)
(* metadata store (internal/database/sqlite.go) and the content side of   *)
(* the vault (internal/vault/memory.go), the operation envelope of the   *)
(* CLI (internal/app/app.go) and the filesystem vault's atomic writes     *)
(* (internal/vault/filesystem.go).                                        *)
(*                                                                         *)
(* Callers of the staging area are goroutines p \in Procs.  Every region  *)
(* the code runs between mu.Lock() and mu.Unlock() is one action; the     *)
(* code between two such regions (re-stat, the backup callback) runs with *)
(* the mutex released and is interleaved with the other callers.          *)
(***************************************************************************)
EXTENDS Integers, Sequences, FiniteSets, TLC

\* ---------------------------------------------------------------- bounds
MaxSize == 2        \* byte budget handed to NewMemoryStagingArea
MaxStages == 2      \* operations enqueued in one behaviour
MaxFsEvents == 1    \* writes/accesses to source files by the environment
MaxFailures == 1    \* injected vault / database failures
MaxCommits == 2     \* callback successes counted per staged operation
MaxDirectories == 3 \* Directory rows created in one behaviour
MaxRestores == 2    \* Restore calls in one behaviour
MaxStoreCalls == 1  \* direct calls of the store's single-statement writers
MaxOperations == 2  \* BackupOperation rows persisted in one behaviour
MaxResets == 1      \* losses of the local database file

Procs == {1, 2}
\* source files, by absolute path: /d/a/x and /d/b/x
Paths == {<<"d", "a", "x">>, <<"d", "b", "x">>}
Data == {"x", "y"}
\* uuid.New(): an id no directory row has ever had
DirectoryID(n) == <<"dir", n>>

\* uuid.New(): files are created once per (directory, name)
FileID(directoryID, name) == <<directoryID, name>>

NoDirectory == <<>>
NoFile == <<>>
NoSnapshotID == 0
DirID == DirectoryID(1)
DirPath == <<"d">>
NoData == "none"
NoTime == 0
NoSnapshot ==
    [ID |-> NoSnapshotID, FileID |-> NoFile, ContentID |-> "", CreatedAt |-> NoTime,
     Size |-> 0, Permissions |-> 0, Uid |-> 0, Gid |-> 0,
     AccessedAt |-> 0, ModifiedAt |-> 0, ChangedAt |-> 0, BornAt |-> NoTime]
NoOp ==
    [DirectoryID |-> NoDirectory, RelativePath |-> <<>>, Snapshot |-> NoSnapshot,
     seq |-> 0]

\* ------------------------------------------------------- pure functions
\* hex(sha256(bytes)): distinct bytes have distinct checksums
\* TestEncryptor.Encrypt: the header, then the plaintext
Encrypt(data) == "BTENC" \o data

Ciphertexts == {Encrypt(d) : d \in Data}

SHA256(d) ==
    IF d = "x" THEN "cx" ELSE IF d = "z" THEN "cz"
    ELSE IF d \in Ciphertexts THEN "c" \o d ELSE "cy"

Checksums == {SHA256(d) : d \in Data}

\* bytes a source file held before the behaviour starts
EarlierData == {"z"}

\* the keys of the staging store's content map
StoreKeys == Checksums \cup {SHA256(d) : d \in EarlierData}

\* len(bytes): "y" fills the whole budget, "x" and "z" are one byte
DataSize(d) == IF d \in {"x", "z"} THEN 1 ELSE MaxSize

\* fmt.Errorf("msg: %w", err): an error is the chain of its messages
Wrap(msg, err) == <<msg>> \o err

ErrNil == <<>>

ErrFileChanged == Wrap("file changed during staging", <<"stat changed">>)

ErrStagingFull == <<"staging area full">>

ErrContentNotFound == <<"content not found">>

\* ------------------------------------------------------------ variables
VARIABLES
    store,      \* memoryStore: content, queue, refCount, currentSize
    fs,         \* source files: bytes, mode, uid, gid, mtime, ctime, atime
    db,         \* metadata store: content rows, file rows, snapshot rows
    vault,      \* vault content: checksum -> bytes
    pc,         \* position of each caller
    loc,        \* locals of each caller
    hist,       \* history: what happened to each staged operation
    app,        \* BTApp of each caller: the open envelope and its operation
    remote      \* vault files besides content: metadata slot, version, temp files

vars == <<store, fs, db, vault, pc, loc, hist, app, remote>>

\* ---------------------------------------------------------- memoryStore
newMemoryStore ==
    [content     |-> [c \in StoreKeys |-> NoData],
     queue       |-> <<>>,
     refCount    |-> [c \in StoreKeys |-> 0],
     currentSize |-> 0]

StoreContent(st, data) ==
    LET checksum == SHA256(data)
        size == DataSize(data)
    IN [store    |-> IF st.content[checksum] = NoData
                     THEN [st EXCEPT !.content[checksum] = data,
                                     !.currentSize = @ + size]
                     ELSE st,
        checksum |-> checksum,
        size     |-> size]

\* slip: forgets the reference count but leaves the bytes in the store
RemoveContentKeepsBytes(st, checksum) ==
    [st EXCEPT !.refCount[checksum] = 0]

RemoveContent(st, checksum) ==
    LET st1 == IF st.content[checksum] # NoData
               THEN [st EXCEPT !.content[checksum] = NoData,
                               !.currentSize = @ - DataSize(st.content[checksum])]
               ELSE st
    IN [st1 EXCEPT !.refCount[checksum] = 0]

OpenContent(st, checksum) == st.content[checksum]

ContentSize(st) == st.currentSize

QueueAppend(st, op) ==
    [st EXCEPT !.queue = Append(@, op),
               !.refCount[op.Snapshot.ContentID] = @ + 1]

\* slip: returns the newest entry
PeekLast(st) == IF Len(st.queue) = 0 THEN NoOp ELSE st.queue[Len(st.queue)]

Peek(st) == IF Len(st.queue) = 0 THEN NoOp ELSE st.queue[1]

Matches(op, directoryID, relativePath, checksum) ==
    /\ op.DirectoryID = directoryID
    /\ op.RelativePath = relativePath
    /\ op.Snapshot.ContentID = checksum

RemoveAt(q, i) == [j \in 1..(Len(q) - 1) |-> IF j < i THEN q[j] ELSE q[j + 1]]

\* slip: the comparison never matches, nothing is removed
PopMisses(st, directoryID, relativePath, checksum) ==
    [store |-> st, remaining |-> 0]

\* slip: removes the last matching operation instead of the first
PopLast(st, directoryID, relativePath, checksum) ==
    LET hits == {i \in 1..Len(st.queue) :
                    Matches(st.queue[i], directoryID, relativePath, checksum)}
    IN IF hits = {}
       THEN [store |-> st, remaining |-> 0]
       ELSE LET i == CHOOSE k \in hits : \A m \in hits : k >= m
                left == st.refCount[checksum] - 1
            IN [store     |-> [st EXCEPT !.queue = RemoveAt(@, i),
                                         !.refCount[checksum] =
                                             IF left <= 0 THEN 0 ELSE left],
                remaining |-> IF left <= 0 THEN 0 ELSE left]

Pop(st, directoryID, relativePath, checksum) ==
    LET hits == {i \in 1..Len(st.queue) :
                    Matches(st.queue[i], directoryID, relativePath, checksum)}
    IN IF hits = {}
       THEN [store |-> st, remaining |-> 0]
       ELSE LET i == CHOOSE k \in hits : \A m \in hits : k <= m
                left == st.refCount[checksum] - 1
            IN [store     |-> [st EXCEPT !.queue = RemoveAt(@, i),
                                         !.refCount[checksum] =
                                             IF left <= 0 THEN 0 ELSE left],
                remaining |-> IF left <= 0 THEN 0 ELSE left]

QueueLen(st) == Len(st.queue)

Contains(st, directoryID, relativePath) ==
    \E i \in 1..Len(st.queue) :
        /\ st.queue[i].DirectoryID = directoryID
        /\ st.queue[i].RelativePath = relativePath

\* ------------------------------------------------------ metadata store
\* an absolute path is the sequence of its components: /d/a is <<"d", "a">>
IsPrefix(a, b) == Len(a) <= Len(b) /\ \A i \in 1..Len(a) : a[i] = b[i]

\* filepath.Clean of a relative path: "x/.." cancels, leading ".." stay
RECURSIVE Clean(_)
Clean(path) ==
    IF \E i \in 1..(Len(path) - 1) : path[i] # ".." /\ path[i + 1] = ".."
    THEN LET i == CHOOSE k \in 1..(Len(path) - 1) :
                      /\ path[k] # ".." /\ path[k + 1] = ".."
                      /\ \A m \in 1..(k - 1) : ~(path[m] # ".." /\ path[m + 1] = "..")
         IN Clean(SubSeq(path, 1, i - 1) \o SubSeq(path, i + 2, Len(path)))
    ELSE path

\* filepath.Rel(base, target) for clean absolute paths; "." is <<>>
Rel(base, target) ==
    LET common == CHOOSE k \in 0..Len(base) :
                      /\ k <= Len(target)
                      /\ \A i \in 1..k : base[i] = target[i]
                      /\ (k < Len(base) /\ k < Len(target)) => base[k + 1] # target[k + 1]
    IN [i \in 1..(Len(base) - common) |-> ".."] \o SubSeq(target, common + 1, Len(target))

\* filepath.Join(a, b)
Join(a, b) == Clean(a \o b)

\* SQLite folds ASCII case when it evaluates LIKE
Fold(c) == IF c = "D" THEN "d" ELSE c

\* path LIKE prefix || '/%'
Like(path, prefix) ==
    /\ Len(path) > Len(prefix)
    /\ \A i \in 1..Len(prefix) : Fold(path[i]) = Fold(prefix[i])

GetDirectoriesByPathPrefix(d, prefix) ==
    {dir \in d.directories : Like(dir.Path, prefix)}

\* slip: the lookup never finds the row
FindDirectoryByPathMisses(d, path) == {}

FindDirectoryByPath(d, path) == {dir \in d.directories : dir.Path = path}

\* the shortest tracked directory that is the path or a prefix of it
SearchDirectoryForPath(d, path) ==
    {dir \in d.directories :
        /\ IsPrefix(dir.Path, path)
        /\ \A other \in d.directories :
              IsPrefix(other.Path, path) => Len(dir.Path) <= Len(other.Path)}

GetFilesByDirectoryID(d, directoryID) ==
    {f \in d.files : f.DirectoryID = directoryID}

GetFileByDirectoryAndName(d, directoryID, name) ==
    {f \in d.files : f.DirectoryID = directoryID /\ f.Name = name}

emptyDatabase ==
    [directories |-> {}, files |-> {}, snapshots |-> <<>>, content |-> {},
     operations |-> <<>>, directoriesCreated |-> 0]

\* slip: the child rows are deleted with their files still attached, and
\* ON DELETE CASCADE removes the files and their snapshots' owner
MoveFilesDropped(d, children, newID, path) ==
    {f \in d.files : \A c \in children : f.DirectoryID # c.ID}

\* UpdateFileDirectoryAndName for every file of every child directory
MoveFiles(d, children, newID, path) ==
    {IF \E c \in children : f.DirectoryID = c.ID
     THEN LET c == CHOOSE c \in children : f.DirectoryID = c.ID
          IN [f EXCEPT !.DirectoryID = newID,
                       !.Name = Join(Rel(path, c.Path), f.Name)]
     ELSE f : f \in d.files}

\* one transaction: insert the row, re-home the children's files, delete
\* the children; any failing statement rolls everything back
CreateDirectory(d, path) ==
    LET childDirs == GetDirectoriesByPathPrefix(d, path)
        newID == DirectoryID(d.directoriesCreated + 1)
        moved == MoveFiles(d, childDirs, newID, path)
    IN IF FindDirectoryByPath(d, path) # {}
       THEN [db |-> d, err |-> <<"inserting directory", "UNIQUE constraint failed">>]
       ELSE IF \E f, g \in moved :
                  f.ID # g.ID /\ f.DirectoryID = g.DirectoryID /\ f.Name = g.Name
       THEN [db |-> d, err |-> <<"moving file", "UNIQUE constraint failed">>]
       ELSE [db  |-> [d EXCEPT !.directories =
                                   (@ \ childDirs) \cup {[ID |-> newID, Path |-> path]},
                               !.files = moved,
                               !.directoriesCreated = @ + 1],
             err |-> ErrNil]

\* slip: reports a content row for every checksum
FindContentByChecksumAlways(d, checksum) == TRUE

FindContentByChecksum(d, checksum) == checksum \in d.content

GetFileSnapshotByID(d, id) ==
    CHOOSE row \in {d.snapshots[k] : k \in 1..Len(d.snapshots)} : row.ID = id

\* slip: the identity of the row takes part in the comparison
snapshotsEqualByID(a, b) ==
    /\ a.ID = b.ID
    /\ a.ContentID = b.ContentID
    /\ a.Size = b.Size

\* ID and CreatedAt are excluded; AccessedAt is compared
snapshotsEqual(a, b) ==
    /\ a.ContentID = b.ContentID
    /\ a.Size = b.Size
    /\ a.Permissions = b.Permissions
    /\ a.Uid = b.Uid
    /\ a.Gid = b.Gid
    /\ a.AccessedAt = b.AccessedAt
    /\ a.ModifiedAt = b.ModifiedAt
    /\ a.ChangedAt = b.ChangedAt
    /\ a.BornAt = b.BornAt

\* the statements of the commit transaction, in order; failAt names the
\* statement that returns an error ("none": all succeed)
TxSteps == {"file", "content", "current", "snapshot", "update", "commit"}

\* the transaction's view after each statement
CommitFile(d, directoryID, relativePath) ==
    IF GetFileByDirectoryAndName(d, directoryID, relativePath) # {}
    THEN d
    ELSE [d EXCEPT !.files = @ \cup {[ID |-> FileID(directoryID, relativePath),
                                      Name |-> relativePath,
                                      DirectoryID |-> directoryID,
                                      CurrentSnapshotID |-> NoSnapshotID]}]

CommitContent(d, checksum) == [d EXCEPT !.content = @ \cup {checksum}]

\* NULL in contents.encrypted_content_id
NoChecksum == ""

ErrUnique == <<"UNIQUE constraint failed">>
ErrForeignKey == <<"FOREIGN KEY constraint failed">>

\* slip: the row's own id is bound to the encrypted_content_id column
InsertContentSelf(d, id, encryptedContentID) ==
    IF id \in d.content THEN [db |-> d, err |-> ErrUnique]
    ELSE [db |-> [d EXCEPT !.content = @ \cup {id},
                           !.encrypted =
                               IF encryptedContentID = NoChecksum THEN @
                               ELSE @ \cup {[ID |-> id, EncryptedContentID |-> id]}],
          err |-> ErrNil]

\* INSERT INTO contents (id, created_at, encrypted_content_id): id is the
\* primary key, encrypted_content_id REFERENCES contents(id)
InsertContent(d, id, encryptedContentID) ==
    IF id \in d.content THEN [db |-> d, err |-> ErrUnique]
    ELSE IF encryptedContentID # NoChecksum
            /\ encryptedContentID \notin d.content \cup {id}
    THEN [db |-> d, err |-> ErrForeignKey]
    ELSE [db |-> [d EXCEPT !.content = @ \cup {id},
                           !.encrypted =
                               IF encryptedContentID = NoChecksum THEN @
                               ELSE @ \cup {[ID |-> id,
                                             EncryptedContentID |-> encryptedContentID]}],
          err |-> ErrNil]

\* the Content row of the plaintext checksum is virtual
FindVirtualContent(d, checksum) == \E v \in d.encrypted : v.ID = checksum

\* the commit's content statements for an encrypted directory: the
\* ciphertext row (real) and the plaintext row pointing at it (virtual),
\* each only if its id is not in the table yet
CommitEncryptedContent(d, checksum, encryptedContentID) ==
    IF checksum \in d.content \/ encryptedContentID = NoChecksum
    THEN d
    ELSE LET d1 == InsertContent(d, encryptedContentID, NoChecksum).db
         IN InsertContent(d1, checksum, encryptedContentID).db

\* slip: the row is inserted with the FileID the caller passed in
CommitSnapshotUnowned(d, file, snapshot) ==
    [d EXCEPT !.snapshots = Append(@, snapshot)]

CommitSnapshot(d, file, snapshot) ==
    [d EXCEPT !.snapshots = Append(@, [snapshot EXCEPT !.FileID = file.ID])]

CommitCurrent(d, file, id) ==
    [d EXCEPT !.files = (@ \ {file}) \cup {[file EXCEPT !.CurrentSnapshotID = id]}]

\* slip: a failing statement leaves the statements before it in place
CreateFileSnapshotAndContentNoRollback(d, directoryID, relativePath, snapshot, failAt) ==
    LET tx1 == CommitFile(d, directoryID, relativePath)
        file == CHOOSE f \in tx1.files :
                    f.DirectoryID = directoryID /\ f.Name = relativePath
        tx2 == CommitContent(tx1, snapshot.ContentID)
        tx3 == CommitSnapshot(tx2, file, snapshot)
        tx4 == CommitCurrent(tx3, file, snapshot.ID)
    IN IF failAt = "file" THEN [db |-> d, err |-> <<"finding file">>]
       ELSE IF failAt = "content" THEN [db |-> tx1, err |-> <<"creating content">>]
       ELSE IF failAt = "current" THEN [db |-> tx2, err |-> <<"loading current snapshot">>]
       ELSE IF failAt = "snapshot" THEN [db |-> tx2, err |-> <<"creating file snapshot">>]
       ELSE IF failAt = "update" THEN [db |-> tx3, err |-> <<"updating file current snapshot">>]
       ELSE IF failAt = "commit" THEN [db |-> tx4, err |-> <<"committing transaction">>]
       ELSE [db |-> tx4, err |-> ErrNil]

\* one transaction: file row, content row, compare with current, insert the
\* snapshot, move the current pointer; defer tx.Rollback() undoes everything
\* unless tx.Commit() was reached
CreateFileSnapshotAndContent(d, directoryID, relativePath, snapshot, failAt) ==
    LET found == GetFileByDirectoryAndName(d, directoryID, relativePath)
        tx1 == CommitFile(d, directoryID, relativePath)
        file == CHOOSE f \in tx1.files :
                    f.DirectoryID = directoryID /\ f.Name = relativePath
        tx2 == CommitContent(tx1, snapshot.ContentID)
        tx3 == CommitSnapshot(tx2, file, snapshot)
        tx4 == CommitCurrent(tx3, file, snapshot.ID)
    IN IF failAt = "file"
       THEN [db |-> d, err |-> <<"finding file">>]
       ELSE IF found = {} /\ \A dir \in d.directories : dir.ID # directoryID
       THEN [db |-> d, err |-> <<"creating file", "FOREIGN KEY constraint failed">>]
       ELSE IF failAt = "content"
       THEN [db |-> d, err |-> <<"creating content">>]
       ELSE IF file.CurrentSnapshotID # NoSnapshotID /\ failAt = "current"
       THEN [db |-> d, err |-> <<"loading current snapshot">>]
       ELSE IF /\ file.CurrentSnapshotID # NoSnapshotID
               /\ snapshotsEqual(GetFileSnapshotByID(tx2, file.CurrentSnapshotID), snapshot)
       THEN IF failAt = "commit"
            THEN [db |-> d, err |-> <<"committing transaction">>]
            ELSE [db |-> tx2, err |-> ErrNil]
       ELSE IF failAt = "snapshot"
       THEN [db |-> d, err |-> <<"creating file snapshot">>]
       ELSE IF \E k \in 1..Len(d.snapshots) : d.snapshots[k].ID = snapshot.ID
       THEN [db |-> d, err |-> <<"creating file snapshot", "UNIQUE constraint failed">>]
       ELSE IF failAt = "update"
       THEN [db |-> d, err |-> <<"updating file current snapshot">>]
       ELSE IF failAt = "commit"
       THEN [db |-> d, err |-> <<"committing transaction">>]
       ELSE [db |-> tx4, err |-> ErrNil]

\* ------------------------------------------------------------- staging
\* fsmgr.Stat / path.Info() followed by ExtractStatData; no birth time
ExtractStatData(file) ==
    [Size |-> DataSize(file.data), Mode |-> file.mode, ModTime |-> file.mtime,
     Ctime |-> file.ctime, UID |-> file.uid, GID |-> file.gid,
     Atime |-> file.atime, BirthTime |-> NoTime]

NoStat == ExtractStatData([data |-> "x", mode |-> 0, mtime |-> 0, ctime |-> 0,
                           uid |-> 0, gid |-> 0, atime |-> 0])

\* slip: the group id is left out of the comparison
validateStatUnchangedNoGID(stat1, stat2) ==
    /\ stat1.Size = stat2.Size
    /\ stat1.Mode = stat2.Mode
    /\ stat1.ModTime = stat2.ModTime
    /\ stat1.Ctime = stat2.Ctime
    /\ stat1.UID = stat2.UID

\* size, mode, mtime, ctime, uid and gid are compared; atime is not
validateStatUnchanged(stat1, stat2) ==
    /\ stat1.Size = stat2.Size
    /\ stat1.Mode = stat2.Mode
    /\ stat1.ModTime = stat2.ModTime
    /\ stat1.Ctime = stat2.Ctime
    /\ stat1.UID = stat2.UID
    /\ stat1.GID = stat2.GID

NoLocals ==
    [call |-> "", path |-> <<>>, directoryID |-> NoDirectory, relativePath |-> <<>>,
     stat1 |-> NoStat, checksum |-> "", size |-> 0,
     op |-> NoOp, data |-> NoData, count |-> 0,
     uploaded |-> FALSE, cbErr |-> ErrNil, pnErr |-> ErrNil, result |-> ErrNil,
     direct |-> FALSE, value |-> <<>>,
     created |-> FALSE,     \* history: StoreContent of this call added the bytes
     written |-> 0]         \* writeFile: bytes copied to the temp file so far

\* the metadata store after addDirectory("/d")
trackedDatabase ==
    [emptyDatabase EXCEPT !.directories = {[ID |-> DirID, Path |-> DirPath]},
                          !.directoriesCreated = 1]

\* after migration 000003 and addDirectory("/d/a", encrypted) and
\* addDirectory("/d/b", not encrypted)
encryptedDatabase ==
    [directories |-> {[ID |-> DirectoryID(1), Path |-> <<"d", "a">>, Encrypted |-> TRUE],
                      [ID |-> DirectoryID(2), Path |-> <<"d", "b">>, Encrypted |-> FALSE]},
     files |-> {}, snapshots |-> <<>>, content |-> {}, encrypted |-> {},
     operations |-> <<>>, directoriesCreated |-> 2]

\* where Restore writes: {path}.{checksum}.btrestored
RestorePaths == {f \o <<c, "btrestored">> : f \in Paths, c \in Checksums}

\* no file at that path
NoEntry ==
    [data |-> NoData, mode |-> 0, mtime |-> 0, ctime |-> 0,
     uid |-> 0, gid |-> 0, atime |-> 0]

\* the source files exist, nothing has been restored
newFilesystem ==
    [f \in Paths \cup RestorePaths |->
        IF f \in Paths THEN [NoEntry EXCEPT !.data = "x"] ELSE NoEntry]

\* no envelope is open; NewBackupOperation has not run
NoApp ==
    [phase |-> "closed", command |-> "",
     op |-> [ID |-> 0, Operation |-> "", Status |-> ""], err |-> ErrNil]

\* a vault nothing was uploaded to: no db metadata, version 0, no temp file
newRemote ==
    [metadata |-> [present |-> FALSE, bytes |-> emptyDatabase],
     version  |-> 0,
     tmp      |-> [p \in Procs |-> NoData]]

\* the stagedOperation Stage builds from info1, stat1 and StoreContent
newStagedOperation(directoryID, relativePath, stat1, checksum, size, seq) ==
    [DirectoryID  |-> directoryID,
     RelativePath |-> relativePath,
     Snapshot     |-> [ID          |-> NoSnapshotID,
                       FileID      |-> NoFile,
                       CreatedAt   |-> NoTime,
                       ContentID   |-> checksum,
                       Size        |-> size,
                       Permissions |-> stat1.Mode,
                       Uid         |-> stat1.UID,
                       Gid         |-> stat1.GID,
                       AccessedAt  |-> stat1.Atime,
                       ModifiedAt  |-> stat1.ModTime,
                       ChangedAt   |-> stat1.Ctime,
                       BornAt      |-> stat1.BirthTime],
     seq          |-> seq]

\* Stage of d/a/x on staging store st, when the file held data
stagedEarlier(st, data) ==
    LET f == <<"d", "a", "x">>
        directory == CHOOSE dir \in SearchDirectoryForPath(trackedDatabase, f) : TRUE
        file == [newFilesystem[f] EXCEPT !.data = data]
        r == StoreContent(st, file.data)
    IN QueueAppend(r.store,
                   newStagedOperation(directory.ID, Rel(directory.Path, f),
                                      ExtractStatData(file), r.checksum, r.size, 0))

\* the staging store after an earlier Stage of d/a/x, not yet drained
stagedStore == stagedEarlier(newMemoryStore, "x")

\* ... after two: the file held "z", then was rewritten to "x"
filledStore == stagedEarlier(stagedEarlier(newMemoryStore, "z"), "x")

InitFrom(database, st) ==
    /\ store = st
    /\ fs = newFilesystem
    /\ db = database
    /\ vault = [c \in Checksums |-> NoData]
    /\ pc = [p \in Procs |-> "idle"]
    /\ loc = [p \in Procs |-> NoLocals]
    /\ hist = [staged |-> 0, fsEvents |-> 0, failures |-> 0,
               commits |-> [i \in 1..MaxStages |-> 0],
               failed |-> {}, interrupted |-> {}, overlap |-> FALSE,
               restores |-> 0, storeCalls |-> 0, resets |-> 0]
    /\ app = [p \in Procs |-> NoApp]
    /\ remote = newRemote

InitWith(database) == InitFrom(database, newMemoryStore)

Init == InitWith(trackedDatabase)

\* -------------------------------------------------------- environment
\* another program rewrites a source file: bytes and stat change
FsWrite(f, d) ==
    /\ hist.fsEvents < MaxFsEvents
    /\ fs' = [fs EXCEPT ![f].data = d, ![f].mtime = @ + 1, ![f].ctime = @ + 1]
    /\ hist' = [hist EXCEPT !.fsEvents = @ + 1]
    /\ UNCHANGED <<store, db, vault, pc, loc, app, remote>>

\* the fields of a file that chmod, chown and utimes move; the clock tick
\* of ctime need not advance with them
StatFields == {"mode", "uid", "gid", "mtime", "ctime"}

\* another program changes one attribute of a source file
FsSetattr(f, field) ==
    /\ hist.fsEvents < MaxFsEvents
    /\ fs' = [fs EXCEPT ![f][field] = @ + 1]
    /\ hist' = [hist EXCEPT !.fsEvents = @ + 1]
    /\ UNCHANGED <<store, db, vault, pc, loc, app, remote>>

\* another program rewrites a source file within the same clock tick
FsWriteSameTick(f, d) ==
    /\ hist.fsEvents < MaxFsEvents
    /\ d # fs[f].data
    /\ fs' = [fs EXCEPT ![f].data = d]
    /\ hist' = [hist EXCEPT !.fsEvents = @ + 1]
    /\ UNCHANGED <<store, db, vault, pc, loc, app, remote>>

\* a source file is read: only its atime moves
FsAccess(f) ==
    /\ hist.fsEvents < MaxFsEvents
    /\ fs' = [fs EXCEPT ![f].atime = @ + 1]
    /\ hist' = [hist EXCEPT !.fsEvents = @ + 1]
    /\ UNCHANGED <<store, db, vault, pc, loc, app, remote>>

\* ---------------------------------------------------- stagingArea.Stage
InStage == {"stage_store", "stage_restat"}

\* callers are interchangeable: an idle caller starts a call only when
\* every caller before it is busy
CanStart(p) ==
    /\ pc[p] = "idle"
    /\ \A q \in Procs : q < p => pc[q] # "idle"

ErrNotTracked == <<"file is not within a tracked directory">>

\* stageOneFile: SearchDirectoryForPath, filepath.Rel, then Stage:
\* 1. info1 := path.Info(); stat1 := ExtractStatData(info1); 2. Open
StageBegin(p, f) ==
    /\ CanStart(p)
    /\ hist.staged + Cardinality({q \in Procs : pc[q] \in InStage}) < MaxStages
    /\ LET found == SearchDirectoryForPath(db, f)
       IN IF found = {}
          THEN /\ loc' = [loc EXCEPT ![p] = [NoLocals EXCEPT !.call = "Stage",
                                                           !.path = f,
                                                           !.result = ErrNotTracked]]
               /\ pc' = [pc EXCEPT ![p] = "done"]
          ELSE LET directory == CHOOSE dir \in found : TRUE
               IN /\ loc' = [loc EXCEPT ![p] =
                               [NoLocals EXCEPT !.call = "Stage",
                                                !.path = f,
                                                !.directoryID = directory.ID,
                                                !.relativePath = Rel(directory.Path, f),
                                                !.stat1 = ExtractStatData(fs[f])]]
                  /\ pc' = [pc EXCEPT ![p] = "stage_store"]
    /\ UNCHANGED <<store, fs, db, vault, hist, app, remote>>

\* 3. mu.Lock(); StoreContent(reader); mu.Unlock()
StageStore(p) ==
    /\ pc[p] = "stage_store"
    /\ LET r == StoreContent(store, fs[loc[p].path].data)
       IN /\ store' = r.store
          /\ loc' = [loc EXCEPT ![p].checksum = r.checksum, ![p].size = r.size,
                                ![p].created = (r.store # store)]
    /\ pc' = [pc EXCEPT ![p] = "stage_restat"]
    /\ UNCHANGED <<fs, db, vault, hist, app, remote>>

\* slip: a store filled to the byte counts as over the budget
OverBudgetAtLimit(contentSize, maxSize) == contentSize >= maxSize

\* if contentSize > s.maxSize
OverBudget(contentSize, maxSize) == contentSize > maxSize

\* 4. re-stat differs: mu.Lock(); RemoveContent(checksum); mu.Unlock()
StageFileChanged(p) ==
    /\ pc[p] = "stage_restat"
    /\ ~validateStatUnchanged(loc[p].stat1, ExtractStatData(fs[loc[p].path]))
    /\ store' = RemoveContent(store, loc[p].checksum)
    /\ loc' = [loc EXCEPT ![p].result = ErrFileChanged]
    /\ pc' = [pc EXCEPT ![p] = "done"]
    /\ UNCHANGED <<fs, db, vault, hist, app, remote>>

\* 5. mu.Lock(); ContentSize() > maxSize: RemoveContent(checksum)
StageFull(p) ==
    /\ pc[p] = "stage_restat"
    /\ validateStatUnchanged(loc[p].stat1, ExtractStatData(fs[loc[p].path]))
    /\ OverBudget(ContentSize(store), MaxSize)
    /\ store' = RemoveContent(store, loc[p].checksum)
    /\ loc' = [loc EXCEPT ![p].result = ErrStagingFull]
    /\ pc' = [pc EXCEPT ![p] = "done"]
    /\ UNCHANGED <<fs, db, vault, hist, app, remote>>

stagedOperation(p) ==
    newStagedOperation(loc[p].directoryID, loc[p].relativePath, loc[p].stat1,
                       loc[p].checksum, loc[p].size, hist.staged + 1)

\* 6. store.Append(op); defer mu.Unlock()
StageEnqueue(p) ==
    /\ pc[p] = "stage_restat"
    /\ validateStatUnchanged(loc[p].stat1, ExtractStatData(fs[loc[p].path]))
    /\ ~OverBudget(ContentSize(store), MaxSize)
    /\ store' = QueueAppend(store, stagedOperation(p))
    /\ loc' = [loc EXCEPT ![p].result = ErrNil]
    /\ pc' = [pc EXCEPT ![p] = "done"]
    /\ hist' = [hist EXCEPT !.staged = @ + 1]
    /\ UNCHANGED <<fs, db, vault, app, remote>>

\* ---------------------------------------------------------------- vault
\* slip: the reader was already drained, an empty object is stored
PutContentDrained(v, checksum, data, size) ==
    IF DataSize(data) # size
    THEN [vault |-> v, err |-> <<"size mismatch">>]
    ELSE [vault |-> [v EXCEPT ![checksum] = ""], err |-> ErrNil]

\* slip: acknowledges the put before the bytes are stored
PutContentUnwritten(v, checksum, data, size) ==
    IF DataSize(data) # size
    THEN [vault |-> v, err |-> <<"size mismatch">>]
    ELSE [vault |-> v, err |-> ErrNil]

PutContent(v, checksum, data, size) ==
    IF DataSize(data) # size
    THEN [vault |-> v, err |-> <<"size mismatch">>]
    ELSE [vault |-> [v EXCEPT ![checksum] = data], err |-> ErrNil]

\* ------------------------------------- BTService.BackupAll / ProcessNext
InProcessNext == {"cb_upload", "cb_commit", "pn_pop"}

\* BackupAll returns (count, "backing up file: %w") when ProcessNext fails
ProcessNextFails(p, err) ==
    /\ loc' = [loc EXCEPT ![p].pnErr = err,
                          ![p].result = IF loc[p].direct THEN err
                                       ELSE Wrap("backing up file", err)]
    /\ pc' = [pc EXCEPT ![p] = "done"]

\* slip: ProcessNext wraps the callback's error before returning it
CallbackFailsWrapped(p, err) ==
    /\ hist.failures < MaxFailures
    /\ loc' = [loc EXCEPT ![p].cbErr = err,
                          ![p].pnErr = Wrap("processing staged operation", err),
                          ![p].result = IF loc[p].direct THEN err
                                       ELSE Wrap("backing up file", err)]
    /\ pc' = [pc EXCEPT ![p] = "done"]
    /\ hist' = [hist EXCEPT !.failures = @ + 1,
                            !.failed = @ \cup {loc[p].op.seq}]

\* the callback returns an error of its own: ProcessNext returns it, the
\* head stays
CallbackReturns(p, err) ==
    /\ loc' = [loc EXCEPT ![p].cbErr = err,
                          ![p].pnErr = err,
                          ![p].result = IF loc[p].direct THEN err
                                       ELSE Wrap("backing up file", err)]
    /\ pc' = [pc EXCEPT ![p] = "done"]
    /\ hist' = [hist EXCEPT !.failed = @ \cup {loc[p].op.seq}]

\* an injected failure makes the callback fail: as above, within the budget
CallbackFails(p, err) ==
    /\ hist.failures < MaxFailures
    /\ loc' = [loc EXCEPT ![p].cbErr = err,
                          ![p].pnErr = err,
                          ![p].result = IF loc[p].direct THEN err
                                       ELSE Wrap("backing up file", err)]
    /\ pc' = [pc EXCEPT ![p] = "done"]
    /\ hist' = [hist EXCEPT !.failures = @ + 1,
                            !.failed = @ \cup {loc[p].op.seq}]

\* for { queueSize := Count(); if queueSize == 0 { break } ...
BackupAllCount(p) ==
    /\ CanStart(p) \/ pc[p] = "ba_loop"
    /\ LET count == IF pc[p] = "idle" THEN 0 ELSE loc[p].count
       IN IF QueueLen(store) = 0
          THEN /\ pc' = [pc EXCEPT ![p] = "done"]
               /\ loc' = [loc EXCEPT ![p] = [NoLocals EXCEPT !.call = "BackupAll",
                                                           !.count = count]]
          ELSE /\ pc' = [pc EXCEPT ![p] = "pn_peek"]
               /\ loc' = [loc EXCEPT ![p] = [NoLocals EXCEPT !.call = "BackupAll",
                                                           !.count = count]]
    /\ UNCHANGED <<store, fs, db, vault, hist, app, remote>>

\* ProcessNext(fn) called on the staging area itself, fn = backupFile
ProcessNextCall(p) ==
    /\ CanStart(p)
    /\ pc' = [pc EXCEPT ![p] = "pn_peek"]
    /\ loc' = [loc EXCEPT ![p] = [NoLocals EXCEPT !.call = "ProcessNext",
                                                 !.direct = TRUE]]
    /\ UNCHANGED <<store, fs, db, vault, hist, app, remote>>

\* Peek() returns nil: ProcessNext returns nil (BackupAll counts it)
ProcessNextEmpty(p) ==
    /\ pc[p] = "pn_peek"
    /\ Peek(store) = NoOp
    /\ loc' = [loc EXCEPT ![p].count = IF loc[p].direct THEN @ ELSE @ + 1]
    /\ pc' = [pc EXCEPT ![p] = IF loc[p].direct THEN "done" ELSE "ba_loop"]
    /\ UNCHANGED <<store, fs, db, vault, hist, app, remote>>

\* OpenContent(checksum) fails: "content not found", callback not called
ProcessNextContentMissing(p) ==
    /\ pc[p] = "pn_peek"
    /\ Peek(store) # NoOp
    /\ OpenContent(store, Peek(store).Snapshot.ContentID) = NoData
    /\ ProcessNextFails(p, ErrContentNotFound)
    /\ UNCHANGED <<store, fs, db, vault, hist, app, remote>>

\* mu.Lock(); op := Peek(); reader := OpenContent(checksum); mu.Unlock()
ProcessNextOpen(p) ==
    /\ pc[p] = "pn_peek"
    /\ Peek(store) # NoOp
    /\ OpenContent(store, Peek(store).Snapshot.ContentID) # NoData
    /\ loc' = [loc EXCEPT ![p].op = Peek(store),
                          ![p].checksum = Peek(store).Snapshot.ContentID,
                          ![p].data = OpenContent(store, Peek(store).Snapshot.ContentID)]
    /\ pc' = [pc EXCEPT ![p] = "cb_upload"]
    /\ hist' = [hist EXCEPT !.overlap =
                    @ \/ \E q \in Procs \ {p} : pc[q] \in InProcessNext]
    /\ UNCHANGED <<store, fs, db, vault, app, remote>>

\* backupFile: FindContentByChecksum; PutContent when the row is absent
BackupFileUpload(p) ==
    /\ pc[p] = "cb_upload"
    /\ LET checksum == loc[p].op.Snapshot.ContentID
           r == PutContent(vault, checksum, loc[p].data, loc[p].op.Snapshot.Size)
       IN IF FindContentByChecksum(db, checksum)
          THEN /\ UNCHANGED <<vault, hist>>
               /\ pc' = [pc EXCEPT ![p] = "cb_commit"]
               /\ UNCHANGED loc
          ELSE IF r.err = ErrNil
          THEN /\ vault' = r.vault
               /\ pc' = [pc EXCEPT ![p] = "cb_commit"]
               /\ loc' = [loc EXCEPT ![p].uploaded = TRUE]
               /\ UNCHANGED hist
          ELSE /\ CallbackFails(p, Wrap("uploading to vault", r.err))
               /\ UNCHANGED vault
    /\ UNCHANGED <<store, fs, db, app, remote>>

\* backupFile: vault.PutContent returns an error
BackupFileUploadFails(p) ==
    /\ pc[p] = "cb_upload"
    /\ ~FindContentByChecksum(db, loc[p].op.Snapshot.ContentID)
    /\ CallbackFails(p, Wrap("uploading to vault", <<"vault unavailable">>))
    /\ UNCHANGED <<store, fs, db, vault, app, remote>>

\* snapshot.ID = idgen.New(); snapshot.CreatedAt = clock.Now()
Identified(d, snapshot) ==
    [snapshot EXCEPT !.ID = Len(d.snapshots) + 1,
                     !.CreatedAt = Len(d.snapshots) + 1]

\* backupFile: CreateFileSnapshotAndContent commits; the callback returns nil
BackupFileCommit(p) ==
    /\ pc[p] = "cb_commit"
    /\ LET r == CreateFileSnapshotAndContent(db, loc[p].op.DirectoryID,
                     loc[p].op.RelativePath, Identified(db, loc[p].op.Snapshot),
                     "none")
       IN IF r.err = ErrNil
          THEN /\ db' = r.db
               /\ pc' = [pc EXCEPT ![p] = "pn_pop"]
               /\ hist' = [hist EXCEPT !.commits[loc[p].op.seq] =
                               IF @ < MaxCommits THEN @ + 1 ELSE @]
               /\ UNCHANGED loc
          ELSE /\ db' = r.db
               /\ CallbackReturns(p, Wrap("recording backup in database", r.err))
    /\ UNCHANGED <<store, fs, vault, app, remote>>

\* backupFile: a statement of the transaction fails and it is rolled back
BackupFileCommitFails(p) ==
    /\ pc[p] = "cb_commit"
    /\ \E failAt \in TxSteps :
         LET r == CreateFileSnapshotAndContent(db, loc[p].op.DirectoryID,
                      loc[p].op.RelativePath, Identified(db, loc[p].op.Snapshot),
                      failAt)
         IN /\ r.err # ErrNil
            /\ db' = r.db
            /\ CallbackFails(p, Wrap("recording backup in database", r.err))
    /\ UNCHANGED <<store, fs, vault, app, remote>>

\* ------------------------------------------- backupFile, encrypted path
\* the directory that hosts the staged file is encrypted
IsEncrypted(d, directoryID) ==
    \E dir \in d.directories : dir.ID = directoryID /\ dir.Encrypted

\* a virtual Content of the plaintext checksum exists: skip encryption and
\* upload; otherwise encrypt and put the ciphertext under its own checksum
BackupFileEncryptedUpload(p) ==
    /\ pc[p] = "cb_upload"
    /\ IsEncrypted(db, loc[p].op.DirectoryID)
    /\ LET cipher == Encrypt(loc[p].data)
           r == PutContent(vault, SHA256(cipher), cipher, DataSize(cipher))
       IN IF FindVirtualContent(db, loc[p].op.Snapshot.ContentID)
          THEN /\ UNCHANGED <<vault, hist>>
               /\ pc' = [pc EXCEPT ![p] = "cb_commit"]
               /\ loc' = [loc EXCEPT ![p].value = <<>>]
          ELSE /\ vault' = r.vault
               /\ pc' = [pc EXCEPT ![p] = "cb_commit"]
               /\ loc' = [loc EXCEPT ![p].uploaded = TRUE,
                                     ![p].value = <<SHA256(cipher)>>]
               /\ UNCHANGED hist
    /\ UNCHANGED <<store, fs, db, app, remote>>

\* createFileSnapshotAndContent with the plaintext checksum as the
\* snapshot's contentId; the commit creates the virtual Content row
\* pointing at the ciphertext Content row; a failure rolls everything back
BackupFileEncryptedCommit(p) ==
    /\ pc[p] = "cb_commit"
    /\ IsEncrypted(db, loc[p].op.DirectoryID)
    /\ \E failAt \in {"none", "commit"} :
         LET encryptedContentID == IF loc[p].value = <<>> THEN NoChecksum
                                   ELSE loc[p].value[1]
             tx == CommitEncryptedContent(db, loc[p].op.Snapshot.ContentID,
                                          encryptedContentID)
             r == CreateFileSnapshotAndContent(tx, loc[p].op.DirectoryID,
                      loc[p].op.RelativePath, Identified(db, loc[p].op.Snapshot),
                      failAt)
         IN IF r.err = ErrNil
            THEN /\ db' = r.db
                 /\ pc' = [pc EXCEPT ![p] = "pn_pop"]
                 /\ hist' = [hist EXCEPT !.commits[loc[p].op.seq] =
                                 IF @ < MaxCommits THEN @ + 1 ELSE @]
                 /\ UNCHANGED loc
            ELSE /\ UNCHANGED db
                 /\ CallbackFails(p, Wrap("recording backup in database", r.err))
    /\ UNCHANGED <<store, fs, vault, app, remote>>

\* slip: BackupAll does not count the entry it processed
ProcessNextPopUncounted(p) ==
    /\ pc[p] = "pn_pop"
    /\ LET r == Pop(store, loc[p].op.DirectoryID, loc[p].op.RelativePath,
                    loc[p].checksum)
       IN store' = IF r.remaining = 0
                   THEN RemoveContent(r.store, loc[p].checksum)
                   ELSE r.store
    /\ pc' = [pc EXCEPT ![p] = IF loc[p].direct THEN "done" ELSE "ba_loop"]
    /\ UNCHANGED <<loc, fs, db, vault, hist, app, remote>>

\* mu.Lock(); remaining := Pop(...); if remaining == 0 { RemoveContent };
\* BackupAll: count++
ProcessNextPop(p) ==
    /\ pc[p] = "pn_pop"
    /\ LET r == Pop(store, loc[p].op.DirectoryID, loc[p].op.RelativePath,
                    loc[p].checksum)
       IN store' = IF r.remaining = 0
                   THEN RemoveContent(r.store, loc[p].checksum)
                   ELSE r.store
    /\ loc' = [loc EXCEPT ![p].count = IF loc[p].direct THEN @ ELSE @ + 1]
    /\ pc' = [pc EXCEPT ![p] = IF loc[p].direct THEN "done" ELSE "ba_loop"]
    /\ UNCHANGED <<fs, db, vault, hist, app, remote>>

\* the command is interrupted after the commit, before the removal
Interrupt(p) ==
    /\ pc[p] = "pn_pop"
    /\ pc' = [pc EXCEPT ![p] = "idle"]
    /\ loc' = [loc EXCEPT ![p] = NoLocals]
    /\ hist' = [hist EXCEPT !.interrupted = @ \cup {loc[p].op.seq}]
    /\ UNCHANGED <<store, fs, db, vault, app, remote>>

\* the call has returned (result, count) to its caller
Return(p) ==
    /\ pc[p] = "done"
    /\ pc' = [pc EXCEPT ![p] = "idle"]
    /\ loc' = [loc EXCEPT ![p] = NoLocals]
    /\ UNCHANGED <<store, fs, db, vault, hist, app, remote>>

\* --------------------------------------------- BTService.AddDirectory
\* directories on disk; the source files of Paths are not directories
\* history --limit, default
HistoryLimit == 50

DirPaths == {<<"d">>, <<"D">>, <<"d", "a">>, <<"d", "b">>}

\* the directories the envelope commands are given
EnvelopePaths == {<<"d">>, <<"d", "a">>}

IsDir(path) == path \in DirPaths

ErrNotDirectory == <<"path is not a directory">>

\* FindDirectoryByPath; already tracked: nil; otherwise CreateDirectory
AddDirectory(p, path) ==
    /\ CanStart(p)
    /\ LET existing == FindDirectoryByPath(db, path)
           r == CreateDirectory(db, path)
       IN IF ~IsDir(path)
          THEN /\ loc' = [loc EXCEPT ![p] = [NoLocals EXCEPT !.call = "AddDirectory",
                                                           !.path = path,
                                                           !.result = ErrNotDirectory]]
               /\ UNCHANGED db
          ELSE IF existing # {}
          THEN /\ loc' = [loc EXCEPT ![p] =
                            [NoLocals EXCEPT !.call = "AddDirectory",
                                             !.path = path,
                                             !.directoryID =
                                                 (CHOOSE dir \in existing : TRUE).ID]]
               /\ UNCHANGED db
          ELSE /\ db.directoriesCreated < MaxDirectories
               /\ db' = r.db
               /\ loc' = [loc EXCEPT ![p] =
                            [NoLocals EXCEPT !.call = "AddDirectory",
                                             !.path = path,
                                             !.result = IF r.err = ErrNil THEN ErrNil
                                                        ELSE Wrap("creating directory", r.err)]]
    /\ pc' = [pc EXCEPT ![p] = "done"]
    /\ UNCHANGED <<store, fs, vault, hist, app, remote>>

\* ------------------------------------------- BTService.GetFileHistory
FindFileSnapshotsForFile(d, file) ==
    SelectSeq(d.snapshots, LAMBDA row : row.FileID = file.ID)

Reverse(q) == [i \in 1..Len(q) |-> q[Len(q) + 1 - i]]

ErrNoHistory == <<"file has no backup history">>

ErrIsDirectory == <<"path is a directory, not a file">>

\* the snapshots of the file, newest first
GetFileHistory(p, f) ==
    /\ CanStart(p)
    /\ LET found == SearchDirectoryForPath(db, f)
           directory == CHOOSE dir \in found : TRUE
           files == GetFileByDirectoryAndName(db, directory.ID, Rel(directory.Path, f))
           file == CHOOSE x \in files : TRUE
           snapshots == FindFileSnapshotsForFile(db, file)
           entries == [i \in 1..Len(snapshots) |->
                          [ContentChecksum |-> snapshots[i].ContentID,
                           BackedUpAt      |-> snapshots[i].CreatedAt,
                           Size            |-> snapshots[i].Size,
                           ModifiedAt      |-> snapshots[i].ModifiedAt,
                           IsCurrent       |-> file.CurrentSnapshotID = snapshots[i].ID]]
       IN loc' = [loc EXCEPT ![p] =
                    IF IsDir(f)
                    THEN [NoLocals EXCEPT !.call = "GetFileHistory", !.path = f,
                                          !.result = ErrIsDirectory]
                    ELSE IF found = {}
                    THEN [NoLocals EXCEPT !.call = "GetFileHistory", !.path = f,
                                          !.result = ErrNotTracked]
                    ELSE IF files = {}
                    THEN [NoLocals EXCEPT !.call = "GetFileHistory", !.path = f,
                                          !.result = ErrNoHistory]
                    ELSE [NoLocals EXCEPT !.call = "GetFileHistory", !.path = f,
                                          !.value = Reverse(entries)]]
    /\ pc' = [pc EXCEPT ![p] = "done"]
    /\ UNCHANGED <<store, fs, db, vault, hist, app, remote>>

\* ------------------------------------------------ BTService.GetStatus
\* fsmgr.FindFiles(path, recursive = true)
FindFiles(fsys, path) ==
    {f \in DOMAIN fsys : IsPrefix(path, f) /\ fsys[f].data # NoData}

\* the status of one file on disk: staged, backed up, modified since
getFileStatus(st, d, directory, relativePath, info) ==
    LET files == GetFileByDirectoryAndName(d, directory.ID, relativePath)
        file == CHOOSE x \in files : TRUE
        current == GetFileSnapshotByID(d, file.CurrentSnapshotID)
        backedUp == files # {} /\ file.CurrentSnapshotID # NoSnapshotID
    IN [RelativePath    |-> relativePath,
        IsStaged        |-> Contains(st, directory.ID, relativePath),
        IsBackedUp      |-> backedUp,
        IsModifiedSince |-> /\ backedUp
                            /\ \/ info.Size # current.Size
                               \/ info.ModTime # current.ModifiedAt]

ErrDirNotTracked == <<"directory is not tracked">>

\* GetStatus(path, recursive = true) of a directory path
GetStatus(p, path) ==
    /\ CanStart(p)
    /\ LET exact == FindDirectoryByPath(db, path)
           found == IF exact # {} THEN exact ELSE SearchDirectoryForPath(db, path)
           directory == CHOOSE dir \in found : TRUE
           onDisk == {getFileStatus(store, db, directory, Rel(directory.Path, f),
                                    ExtractStatData(fs[f])) : f \in FindFiles(fs, path)}
           seen == {s.RelativePath : s \in onDisk}
           queryPrefix == Rel(directory.Path, path)
           gone == {[RelativePath |-> x.Name, IsStaged |-> FALSE,
                     IsBackedUp |-> TRUE, IsModifiedSince |-> TRUE] :
                       x \in {y \in GetFilesByDirectoryID(db, directory.ID) :
                                /\ Len(y.Name) > Len(queryPrefix)
                                /\ IsPrefix(queryPrefix, y.Name)
                                /\ y.Name \notin seen
                                /\ y.CurrentSnapshotID # NoSnapshotID}}
       IN loc' = [loc EXCEPT ![p] =
                    IF ~IsDir(path)
                    THEN [NoLocals EXCEPT !.call = "GetStatus", !.path = path,
                                          !.result = ErrNotDirectory]
                    ELSE IF found = {}
                    THEN [NoLocals EXCEPT !.call = "GetStatus", !.path = path,
                                          !.result = ErrDirNotTracked]
                    ELSE [NoLocals EXCEPT !.call = "GetStatus", !.path = path,
                                          !.value = onDisk \cup gone]]
    /\ pc' = [pc EXCEPT ![p] = "done"]
    /\ UNCHANGED <<store, fs, db, vault, hist, app, remote>>

\* -------------------------------------------------- BTService.Restore
\* {dir}/{basename}.{checksum[:12]}.btrestored
buildRestorePath(dirPath, relativePath, contentID) ==
    Clean(dirPath \o relativePath) \o <<contentID, "btrestored">>

\* MemoryVault.GetContent: the stored bytes, or nothing
GetContent(v, checksum) == v[checksum]

\* the newest snapshot of the file with that content
FindFileSnapshotByChecksum(d, file, checksum) ==
    SelectSeq(Reverse(FindFileSnapshotsForFile(d, file)),
              LAMBDA row : row.ContentID = checksum)

\* checksum given: that version; otherwise the file's current snapshot
resolveSnapshot(d, file, checksum) ==
    IF checksum # ""
    THEN LET hits == FindFileSnapshotByChecksum(d, file, checksum)
         IN IF hits = <<>>
            THEN [snapshot |-> NoSnapshot, err |-> <<"no snapshot found with checksum">>]
            ELSE [snapshot |-> hits[1], err |-> ErrNil]
    ELSE IF file.CurrentSnapshotID = NoSnapshotID
    THEN [snapshot |-> NoSnapshot, err |-> <<"file has no current snapshot">>]
    ELSE LET hits == SelectSeq(FindFileSnapshotsForFile(d, file),
                               LAMBDA row : row.ID = file.CurrentSnapshotID)
         IN IF hits = <<>>
            THEN [snapshot |-> NoSnapshot,
                  err |-> <<"current snapshot not found in database">>]
            ELSE [snapshot |-> hits[1], err |-> ErrNil]

\* the statements of restoreOneFile that can return an error of the
\* operating system or the vault; "none": all succeed
RestoreSteps == {"create", "vault", "chmod", "chtimes"}

ErrOutputExists == <<"output file already exists">>

\* slip: the output path is not looked at before os.Create truncates it
ExistsNever(fsys, path) == FALSE

\* os.Stat(outPath) returns no error
Exists(fsys, path) == fsys[path].data # NoData

\* os.Stat, os.Create, vault.GetContent, os.Chmod, os.Chtimes; only a
\* failing GetContent is followed by os.Remove(outPath)
restoreOneFile(fsys, v, dir, relativePath, snapshot, failAt) ==
    LET outPath == buildRestorePath(dir.Path, relativePath, snapshot.ContentID)
        bytes == GetContent(v, snapshot.ContentID)
        created == [NoEntry EXCEPT !.data = bytes]
    IN IF Exists(fsys, outPath)
       THEN [fs |-> fsys, err |-> ErrOutputExists]
       ELSE IF failAt = "create"
       THEN [fs |-> fsys, err |-> <<"creating output file">>]
       ELSE IF bytes = NoData
       THEN [fs |-> fsys, err |-> <<"retrieving content from vault", "content not found">>]
       ELSE IF failAt = "vault"
       THEN [fs |-> fsys, err |-> <<"retrieving content from vault">>]
       ELSE IF failAt = "chmod"
       THEN [fs |-> [fsys EXCEPT ![outPath] = created],
             err |-> <<"setting permissions">>]
       ELSE IF failAt = "chtimes"
       THEN [fs |-> [fsys EXCEPT ![outPath] =
                         [created EXCEPT !.mode = snapshot.Permissions]],
             err |-> <<"setting file times">>]
       ELSE [fs  |-> [fsys EXCEPT ![outPath] =
                         [data |-> bytes, mode |-> snapshot.Permissions,
                          mtime |-> snapshot.ModifiedAt, ctime |-> 0,
                          uid |-> 0, gid |-> 0, atime |-> snapshot.AccessedAt]],
             err |-> ErrNil]

\* restoreDirectory: the files in the order the query returns them; the
\* first failure stops the loop and keeps what was already written
RECURSIVE restoreFiles(_, _, _, _, _, _)
restoreFiles(fsys, v, d, dir, order, failAt) ==
    IF order = <<>>
    THEN [fs |-> fsys, err |-> ErrNil]
    ELSE LET file == Head(order)
             s == resolveSnapshot(d, file, "")
             r == restoreOneFile(fsys, v, dir, file.Name, s.snapshot, failAt)
         IN IF file.CurrentSnapshotID = NoSnapshotID
            THEN restoreFiles(fsys, v, d, dir, Tail(order), failAt)
            ELSE IF s.err # ErrNil
            THEN [fs |-> fsys, err |-> Wrap("resolving snapshot", s.err)]
            ELSE IF r.err # ErrNil
            THEN [fs |-> r.fs, err |-> Wrap("restoring", r.err)]
            ELSE restoreFiles(r.fs, v, d, dir, Tail(order), failAt)

\* the orders in which a query without ORDER BY can return a set of rows
Orders(S) ==
    {order \in [1..Cardinality(S) -> S] :
        \A i, j \in 1..Cardinality(S) : order[i] = order[j] => i = j}

\* restoreFile: the tracked directory, the file row, the snapshot, the write
restoreFile(fsys, v, d, absPath, checksum, failAt) ==
    LET found == SearchDirectoryForPath(d, absPath)
        directory == CHOOSE dir \in found : TRUE
        relativePath == Rel(directory.Path, absPath)
        files == GetFileByDirectoryAndName(d, directory.ID, relativePath)
        file == CHOOSE x \in files : TRUE
        s == resolveSnapshot(d, file, checksum)
    IN IF found = {} THEN [fs |-> fsys, err |-> ErrNotTracked]
       ELSE IF files = {} THEN [fs |-> fsys, err |-> ErrNoHistory]
       ELSE IF s.err # ErrNil THEN [fs |-> fsys, err |-> s.err]
       ELSE restoreOneFile(fsys, v, directory, relativePath, s.snapshot, failAt)

\* Restore(absPath, checksum): a tracked directory, or else a file
restoreCall(p, absPath, checksum, failAt) ==
    /\ CanStart(p)
    /\ hist.restores < MaxRestores
    /\ LET exact == FindDirectoryByPath(db, absPath)
           dir == CHOOSE x \in exact : TRUE
           files == IF exact = {} THEN {} ELSE GetFilesByDirectoryID(db, dir.ID)
       IN \E order \in Orders(files) :
            LET r == IF exact = {}
                     THEN restoreFile(fs, vault, db, absPath, checksum, failAt)
                     ELSE IF checksum # ""
                     THEN [fs |-> fs,
                           err |-> <<"cannot restore a directory with a specific checksum">>]
                     ELSE restoreFiles(fs, vault, db, dir, order, failAt)
            IN /\ fs' = r.fs
               /\ loc' = [loc EXCEPT ![p] = [NoLocals EXCEPT !.call = "Restore",
                                                            !.path = absPath,
                                                            !.checksum = checksum,
                                                            !.result = r.err]]
    /\ pc' = [pc EXCEPT ![p] = "done"]

\* every statement succeeds
Restore(p, absPath, checksum) ==
    /\ restoreCall(p, absPath, checksum, "none")
    /\ hist' = [hist EXCEPT !.restores = @ + 1]
    /\ UNCHANGED <<store, db, vault, app, remote>>

\* a statement of restoreOneFile returns an error
RestoreFails(p, absPath, checksum, failAt) ==
    /\ hist.failures < MaxFailures
    /\ restoreCall(p, absPath, checksum, failAt)
    /\ loc'[p].result # ErrNil
    /\ hist' = [hist EXCEPT !.restores = @ + 1, !.failures = @ + 1]
    /\ UNCHANGED <<store, db, vault, app, remote>>

\* ----------------------------------------------- BTService.GetHistory
\* the newest `limit` backup operations, newest first
ListBackupOperations(d, limit) ==
    SubSeq(Reverse(d.operations), 1,
           IF Len(d.operations) < limit THEN Len(d.operations) ELSE limit)

GetHistory(p, limit) ==
    /\ CanStart(p)
    /\ loc' = [loc EXCEPT ![p] = [NoLocals EXCEPT !.call = "GetHistory",
                                                 !.value = ListBackupOperations(db, limit)]]
    /\ pc' = [pc EXCEPT ![p] = "done"]
    /\ UNCHANGED <<store, fs, db, vault, hist, app, remote>>

\* ----------------------------- the store's single-statement writers
\* Database.CreateContent: INSERT INTO contents
CreateContent(p, checksum) ==
    /\ CanStart(p)
    /\ hist.storeCalls < MaxStoreCalls
    /\ IF checksum \in db.content
       THEN /\ UNCHANGED db
            /\ loc' = [loc EXCEPT ![p] =
                         [NoLocals EXCEPT !.call = "CreateContent",
                                          !.result = <<"creating content",
                                                       "UNIQUE constraint failed">>]]
       ELSE /\ db' = CommitContent(db, checksum)
            /\ loc' = [loc EXCEPT ![p] = [NoLocals EXCEPT !.call = "CreateContent"]]
    /\ pc' = [pc EXCEPT ![p] = "done"]
    /\ hist' = [hist EXCEPT !.storeCalls = @ + 1]
    /\ UNCHANGED <<store, fs, vault, app, remote>>

\* Database.CreateFileSnapshot: INSERT INTO file_snapshots; content_id
\* must name a Content row
CreateFileSnapshot(p, file, checksum) ==
    /\ CanStart(p)
    /\ hist.storeCalls < MaxStoreCalls
    /\ file \in db.files
    /\ IF checksum \notin db.content
       THEN /\ UNCHANGED db
            /\ loc' = [loc EXCEPT ![p] =
                         [NoLocals EXCEPT !.call = "CreateFileSnapshot",
                                          !.result = <<"creating file snapshot",
                                                       "FOREIGN KEY constraint failed">>]]
       ELSE /\ db' = CommitSnapshot(db, file,
                         Identified(db, [NoSnapshot EXCEPT !.ContentID = checksum]))
            /\ loc' = [loc EXCEPT ![p] = [NoLocals EXCEPT !.call = "CreateFileSnapshot"]]
    /\ pc' = [pc EXCEPT ![p] = "done"]
    /\ hist' = [hist EXCEPT !.storeCalls = @ + 1]
    /\ UNCHANGED <<store, fs, vault, app, remote>>

\* Database.UpdateFileCurrentSnapshot: UPDATE files SET current_snapshot_id
UpdateFileCurrentSnapshot(p, file, snapshotID) ==
    /\ CanStart(p)
    /\ hist.storeCalls < MaxStoreCalls
    /\ file \in db.files
    /\ IF \A k \in 1..Len(db.snapshots) : db.snapshots[k].ID # snapshotID
       THEN /\ UNCHANGED db
            /\ loc' = [loc EXCEPT ![p] =
                         [NoLocals EXCEPT !.call = "UpdateFileCurrentSnapshot",
                                          !.result = <<"updating file current snapshot",
                                                       "FOREIGN KEY constraint failed">>]]
       ELSE /\ db' = CommitCurrent(db, file, snapshotID)
            /\ loc' = [loc EXCEPT ![p] =
                         [NoLocals EXCEPT !.call = "UpdateFileCurrentSnapshot"]]
    /\ pc' = [pc EXCEPT ![p] = "done"]
    /\ hist' = [hist EXCEPT !.storeCalls = @ + 1]
    /\ UNCHANGED <<store, fs, vault, app, remote>>

\* ---------------------------------------------------------------- BTApp
\* SELECT COALESCE(MAX(id), 0) FROM backup_operations
MaxBackupOperationID(d) ==
    IF d.operations = <<>> THEN 0 ELSE d.operations[Len(d.operations)].ID

\* INSERT INTO backup_operations: AUTOINCREMENT id, status 'running'
CreateBackupOperation(d, operation) ==
    [d EXCEPT !.operations =
        Append(@, [ID |-> MaxBackupOperationID(d) + 1, Operation |-> operation,
                   Status |-> "running", FinishedAt |-> NoTime])]

\* UPDATE backup_operations SET finished_at = now, status = ? WHERE id = ?
FinishBackupOperation(d, id, status) ==
    [d EXCEPT !.operations =
        [k \in 1..Len(@) |->
            IF @[k].ID = id
            THEN [@[k] EXCEPT !.Status = status,
                              !.FinishedAt = MaxBackupOperationID(d)]
            ELSE @[k]]]

\* FileSystemVault.GetMetadataVersion: 0 when no version file exists
GetMetadataVersion(r) == r.version

ErrLocalBehind == <<"local database is behind remote">>

\* slip: the version check never fires
LocalBehindNever(remoteVersion, localMax) == FALSE

\* if remoteVersion > localMax
LocalBehind(remoteVersion, localMax) == remoteVersion > localMax

\* the CLI commands that open an envelope
Commands ==
    {"AddDirectory", "StageFiles", "BackupAll", "GetStatus", "GetFileHistory",
     "GetHistory", "RestoreFiles"}

\* slip: every command persists the operation
PersistsAlways(command) == TRUE

\* the BTApp methods that call persistOperation
Persists(command) == command \in {"AddDirectory", "BackupAll"}

\* in memory, ID 0, status "success"
NewBackupOperation(operation) ==
    [ID |-> 0, Operation |-> operation, Status |-> "success"]

Persisted(op) == op.ID # 0

\* NewBTApp(cfg, operation): open the store, compare the vault's db version
\* with the local maximum operation id, create the in-memory operation
NewBTApp(p, operation) ==
    /\ CanStart(p)
    /\ app[p].phase = "closed"
    /\ app' = [app EXCEPT ![p] =
                 IF LocalBehind(GetMetadataVersion(remote), MaxBackupOperationID(db))
                 THEN [NoApp EXCEPT !.phase = "failed", !.command = operation,
                                    !.err = ErrLocalBehind]
                 ELSE [NoApp EXCEPT !.phase = "open", !.command = operation,
                                    !.op = NewBackupOperation(operation)]]
    /\ UNCHANGED <<store, fs, db, vault, pc, loc, hist, remote>>

\* newApp returned the error; the command exits
Exit(p) ==
    /\ app[p].phase = "failed"
    /\ app' = [app EXCEPT ![p] = NoApp]
    /\ UNCHANGED <<store, fs, db, vault, pc, loc, hist, remote>>

\* persistOperation, first statement of BTApp.AddDirectory and BTApp.BackupAll
persistOperation(p) ==
    /\ pc[p] = "idle"
    /\ app[p].phase = "open"
    /\ Persists(app[p].command)
    /\ ~Persisted(app[p].op)
    /\ Len(db.operations) < MaxOperations
    /\ db' = CreateBackupOperation(db, app[p].op.Operation)
    /\ app' = [app EXCEPT ![p].op.ID = MaxBackupOperationID(db')]
    /\ UNCHANGED <<store, fs, vault, pc, loc, hist, remote>>

\* the BTApp method may call the service: the envelope is open for that
\* command and persistOperation has run where the method calls it
Runs(p, command) ==
    /\ app[p].phase = "open"
    /\ app[p].command = command
    /\ Persists(command) => Persisted(app[p].op)

\* Close, persisted: FinishBackupOperation, BackupTo a temp file, close the
\* store; not persisted: close the store
Close(p) ==
    /\ pc[p] = "done"
    /\ app[p].phase = "open"
    /\ IF Persisted(app[p].op)
       THEN /\ db' = FinishBackupOperation(db, app[p].op.ID, app[p].op.Status)
            /\ pc' = [pc EXCEPT ![p] = "close_upload"]
            /\ UNCHANGED <<loc, app>>
       ELSE /\ pc' = [pc EXCEPT ![p] = "idle"]
            /\ loc' = [loc EXCEPT ![p] = NoLocals]
            /\ app' = [app EXCEPT ![p] = NoApp]
            /\ UNCHANGED db
    /\ UNCHANGED <<store, fs, vault, hist, remote>>

\* slip: the version file is not written
PutMetadataVersionSkipped(r, version) == r

\* PutMetadata, second write: the version
PutMetadataVersion(r, version) == [r EXCEPT !.version = version]

\* PutMetadata, first write: the bytes
PutMetadataBytes(r, bytes) ==
    [r EXCEPT !.metadata = [present |-> TRUE, bytes |-> bytes]]

\* uploadMetadata(tmpPath, a.op.ID): vault.PutMetadata stores the snapshot
UploadMetadata(p) ==
    /\ pc[p] = "close_upload"
    /\ remote' = PutMetadataBytes(remote, db)
    /\ pc' = [pc EXCEPT ![p] = "close_version"]
    /\ UNCHANGED <<store, fs, db, vault, loc, hist, app>>

\* ... and the version, after which Close returns
UploadVersion(p) ==
    /\ pc[p] = "close_version"
    /\ remote' = PutMetadataVersion(remote, app[p].op.ID)
    /\ pc' = [pc EXCEPT ![p] = "idle"]
    /\ loc' = [loc EXCEPT ![p] = NoLocals]
    /\ app' = [app EXCEPT ![p] = NoApp]
    /\ UNCHANGED <<store, fs, db, vault, hist>>

\* BackupTo or PutMetadata returns an error: Close collects it, nothing is
\* uploaded
UploadFails(p) ==
    /\ pc[p] = "close_upload"
    /\ hist.failures < MaxFailures
    /\ hist' = [hist EXCEPT !.failures = @ + 1]
    /\ pc' = [pc EXCEPT ![p] = "idle"]
    /\ loc' = [loc EXCEPT ![p] = NoLocals]
    /\ app' = [app EXCEPT ![p] = NoApp]
    /\ UNCHANGED <<store, fs, db, vault, remote>>

\* PutMetadata: the bytes are written, then os.WriteFile of the version
\* file fails or the process is killed before it; Close collects the error
UploadVersionFails(p) ==
    /\ pc[p] = "close_version"
    /\ hist.failures < MaxFailures
    /\ hist' = [hist EXCEPT !.failures = @ + 1]
    /\ pc' = [pc EXCEPT ![p] = "idle"]
    /\ loc' = [loc EXCEPT ![p] = NoLocals]
    /\ app' = [app EXCEPT ![p] = NoApp]
    /\ UNCHANGED <<store, fs, db, vault, remote>>

\* the local database file is lost and re-initialised between invocations
DatabaseLost ==
    /\ \A p \in Procs : app[p].phase = "closed"
    /\ hist.resets < MaxResets
    /\ db # emptyDatabase
    /\ db' = emptyDatabase
    /\ hist' = [hist EXCEPT !.resets = @ + 1]
    /\ UNCHANGED <<store, fs, vault, pc, loc, app, remote>>

\* ------------------------------------------------------ FileSystemVault
\* the content directory is vault (checksum -> bytes of the file of that
\* name); remote.tmp[p] is the .tmp-* file of caller p's writeFile.
\* The first n bytes of data, as the content of a file
Prefix(data, n) ==
    IF n >= DataSize(data) THEN data
    ELSE IF n = 0 THEN ""
    ELSE data \o "/" \o ToString(n)

ErrSizeMismatch == <<"size mismatch">>

\* declared sizes handed to PutContent
Sizes == 1..MaxSize

\* slip: a destination that exists is an error
PutExistingRejected(data, size) == <<"content exists">>

\* PutContent, destination exists: consume the reader, compare the count
PutExisting(data, size) ==
    IF DataSize(data) # size THEN ErrSizeMismatch ELSE ErrNil

\* slip: the size is not verified
SizeMatchesAlways(written, expectedSize) == TRUE

\* writeFile: written != expectedSize is the size mismatch
SizeMatches(written, expectedSize) == written = expectedSize

\* slip: io.Copy writes into the destination file itself
copyInPlace(v, tmp, checksum, bytes) ==
    [vault |-> [v EXCEPT ![checksum] = bytes], tmp |-> tmp]

\* writeFile: io.Copy(tmpFile, r) appends to the temp file
copy(v, tmp, checksum, bytes) == [vault |-> v, tmp |-> bytes]

\* FileSystemVault.PutContent up to the first write: os.Stat(destPath), then
\* either the idempotent return or writeFile's os.CreateTemp
FileSystemVaultPutContent(p, data, size) ==
    /\ CanStart(p)
    /\ remote.tmp[p] = NoData
    /\ LET checksum == SHA256(data)
           call == [NoLocals EXCEPT !.call = "PutContent", !.checksum = checksum,
                                    !.data = data, !.size = size]
       IN IF vault[checksum] # NoData
          THEN /\ loc' = [loc EXCEPT ![p] =
                           [call EXCEPT !.result = PutExisting(data, size)]]
               /\ pc' = [pc EXCEPT ![p] = "done"]
               /\ UNCHANGED remote
          ELSE /\ loc' = [loc EXCEPT ![p] = call]
               /\ pc' = [pc EXCEPT ![p] = "put_copy"]
               /\ remote' = [remote EXCEPT !.tmp[p] = ""]
    /\ UNCHANGED <<store, fs, db, vault, hist, app>>

\* io.Copy moves the next byte of the reader into the temp file
writeFileCopy(p) ==
    /\ pc[p] = "put_copy"
    /\ loc[p].written < DataSize(loc[p].data)
    /\ LET r == copy(vault, remote.tmp[p], loc[p].checksum,
                     Prefix(loc[p].data, loc[p].written + 1))
       IN /\ vault' = r.vault
          /\ remote' = [remote EXCEPT !.tmp[p] = r.tmp]
    /\ loc' = [loc EXCEPT ![p].written = @ + 1]
    /\ UNCHANGED <<store, fs, db, pc, hist, app>>

\* io.Copy returns an error: the deferred os.Remove(tmpPath) runs
writeFileCopyFails(p) ==
    /\ pc[p] = "put_copy"
    /\ hist.failures < MaxFailures
    /\ hist' = [hist EXCEPT !.failures = @ + 1]
    /\ remote' = [remote EXCEPT !.tmp[p] = NoData]
    /\ loc' = [loc EXCEPT ![p].result = <<"failed to write data">>]
    /\ pc' = [pc EXCEPT ![p] = "done"]
    /\ UNCHANGED <<store, fs, db, vault, app>>

\* the reader is at EOF: Close, verify the size, os.Rename(tmpPath, destPath)
\* or, on a mismatch, the deferred os.Remove(tmpPath)
writeFileRename(p) ==
    /\ pc[p] = "put_copy"
    /\ loc[p].written = DataSize(loc[p].data)
    /\ IF SizeMatches(loc[p].written, loc[p].size)
       THEN /\ vault' = [vault EXCEPT ![loc[p].checksum] = remote.tmp[p]]
            /\ loc' = [loc EXCEPT ![p].result = ErrNil]
       ELSE /\ UNCHANGED vault
            /\ loc' = [loc EXCEPT ![p].result = ErrSizeMismatch]
    /\ remote' = [remote EXCEPT !.tmp[p] = NoData]
    /\ pc' = [pc EXCEPT ![p] = "done"]
    /\ UNCHANGED <<store, fs, db, hist, app>>

\* the process is killed inside writeFile: the temp file stays behind
writeFileKilled(p) ==
    /\ pc[p] = "put_copy"
    /\ pc' = [pc EXCEPT ![p] = "idle"]
    /\ loc' = [loc EXCEPT ![p] = NoLocals]
    /\ UNCHANGED <<store, fs, db, vault, hist, app, remote>>

\* FileSystemVault.GetContent: readFile(contentDir/checksum)
FileSystemVaultGetContent(p, checksum) ==
    /\ CanStart(p)
    /\ loc' = [loc EXCEPT ![p] =
                 [NoLocals EXCEPT !.call = "GetContent", !.checksum = checksum,
                                  !.result = IF vault[checksum] = NoData
                                             THEN ErrContentNotFound ELSE ErrNil,
                                  !.value = IF vault[checksum] = NoData
                                            THEN <<>> ELSE <<vault[checksum]>>]]
    /\ pc' = [pc EXCEPT ![p] = "done"]
    /\ UNCHANGED <<store, fs, db, vault, hist, app, remote>>

\* ------------------------------------------------------- specification
Next ==
    \/ \E f \in Paths, d \in Data : FsWrite(f, d)
    \/ \E p \in Procs, f \in Paths : StageBegin(p, f)
    \/ \E p \in Procs : StageStore(p)
    \/ \E p \in Procs : StageFileChanged(p)
    \/ \E p \in Procs : StageFull(p)
    \/ \E p \in Procs : StageEnqueue(p)
    \/ \E p \in Procs : BackupAllCount(p)
    \/ \E p \in Procs : ProcessNextCall(p)
    \/ \E p \in Procs : ProcessNextEmpty(p)
    \/ \E p \in Procs : ProcessNextContentMissing(p)
    \/ \E p \in Procs : ProcessNextOpen(p)
    \/ \E p \in Procs : BackupFileUpload(p)
    \/ \E p \in Procs : BackupFileUploadFails(p)
    \/ \E p \in Procs : BackupFileCommit(p)
    \/ \E p \in Procs : BackupFileCommitFails(p)
    \/ \E p \in Procs : ProcessNextPop(p)
    \/ \E p \in Procs : Return(p)

Spec == Init /\ [][Next]_vars

\* CLI mode: one command at a time, a single caller
SerialNext ==
    \/ \E f \in Paths, d \in Data : FsWrite(f, d)
    \/ \E f \in Paths : StageBegin(1, f)
    \/ StageStore(1)
    \/ StageFileChanged(1)
    \/ StageFull(1)
    \/ StageEnqueue(1)
    \/ BackupAllCount(1)
    \/ ProcessNextCall(1)
    \/ ProcessNextEmpty(1)
    \/ ProcessNextContentMissing(1)
    \/ ProcessNextOpen(1)
    \/ BackupFileUpload(1)
    \/ BackupFileUploadFails(1)
    \/ BackupFileCommit(1)
    \/ BackupFileCommitFails(1)
    \/ ProcessNextPop(1)
    \/ Return(1)

SerialSpec == Init /\ [][SerialNext]_vars

\* a command that was invoked runs to completion
SerialFairSpec == SerialSpec /\ WF_vars(SerialNext)

\* CLI mode with commands that can be interrupted
CrashNext ==
    \/ SerialNext
    \/ Interrupt(1)

CrashSpec == Init /\ [][CrashNext]_vars

\* CLI mode on a file system where any single attribute can move
StatNext ==
    \/ SerialNext
    \/ \E f \in Paths, field \in StatFields : FsSetattr(f, field)
    \/ \E f \in Paths, d \in Data : FsWriteSameTick(f, d)
    \/ \E f \in Paths : FsAccess(f)

StatSpec == Init /\ [][StatNext]_vars

\* CLI mode from a fresh install: nothing tracked, every service command
StoreInit == InitWith(emptyDatabase)

StoreNext ==
    \/ CrashNext
    \/ \E path \in DirPaths \cup Paths : AddDirectory(1, path)

StoreSpec == StoreInit /\ [][StoreNext]_vars

\* every command of the service on a quiet machine (no other program
\* writes the files, nothing fails), and a client of the store's interface
\* that calls its single-statement writers
ApiNext ==
    \/ \E path \in DirPaths \cup Paths : AddDirectory(1, path)
    \/ \E f \in Paths : StageBegin(1, f)
    \/ StageStore(1)
    \/ StageEnqueue(1)
    \/ BackupAllCount(1)
    \/ ProcessNextOpen(1)
    \/ BackupFileUpload(1)
    \/ BackupFileCommit(1)
    \/ ProcessNextPop(1)
    \/ Return(1)
    \/ \E path \in DirPaths \cup Paths : GetStatus(1, path)
    \/ \E path \in DirPaths \cup Paths : GetFileHistory(1, path)
    \/ GetHistory(1, HistoryLimit)
    \/ \E path \in DirPaths \cup Paths, checksum \in {""} \cup Checksums :
          Restore(1, path, checksum)
    \/ \E checksum \in Checksums : CreateContent(1, checksum)
    \/ \E file \in db.files, checksum \in Checksums :
          CreateFileSnapshot(1, file, checksum)
    \/ \E file \in db.files, snapshotID \in 1..(Len(db.snapshots) + 1) :
          UpdateFileCurrentSnapshot(1, file, snapshotID)

ApiSpec == StoreInit /\ [][ApiNext]_vars

\* parallel callers of Stage on a staging store that already holds one
\* queued entry: the mutex serialises the store calls, not the Stage calls
StagingInit == InitFrom(trackedDatabase, stagedStore)

StagingNext ==
    \/ \E f \in Paths, d \in Data : FsWrite(f, d)
    \/ \E p \in Procs, f \in Paths : StageBegin(p, f)
    \/ \E p \in Procs : StageStore(p)
    \/ \E p \in Procs : StageFileChanged(p)
    \/ \E p \in Procs : StageFull(p)
    \/ \E p \in Procs : StageEnqueue(p)
    \/ \E p \in Procs : Return(p)

StagingSpec == StagingInit /\ [][StagingNext]_vars

\* one caller of Stage at a time, on a staging store that is empty, holds
\* one queued entry or is filled to the budget by two
BudgetInit ==
    \E st \in {newMemoryStore, stagedStore, filledStore} :
        InitFrom(trackedDatabase, st)

BudgetNext ==
    \/ \E f \in Paths, d \in Data : FsWrite(f, d)
    \/ \E f \in Paths : StageBegin(1, f)
    \/ StageStore(1)
    \/ StageFileChanged(1)
    \/ StageFull(1)
    \/ StageEnqueue(1)
    \/ Return(1)

BudgetSpec == BudgetInit /\ [][BudgetNext]_vars

\* callers of the filesystem vault: puts with any declared size, reads
VaultNext ==
    \/ \E p \in Procs, data \in Data, size \in Sizes :
          FileSystemVaultPutContent(p, data, size)
    \/ \E p \in Procs : writeFileCopy(p)
    \/ \E p \in Procs : writeFileCopyFails(p)
    \/ \E p \in Procs : writeFileRename(p)
    \/ \E p \in Procs : writeFileKilled(p)
    \/ \E p \in Procs, checksum \in Checksums : FileSystemVaultGetContent(p, checksum)
    \/ \E p \in Procs : Return(p)

VaultSpec == Init /\ [][VaultNext]_vars

\* backup and restore by one caller: source files are rewritten, the
\* statements of restoreOneFile can fail
RestoreNext ==
    \/ \E f \in Paths, d \in Data : FsWrite(f, d)
    \/ \E f \in Paths : StageBegin(1, f)
    \/ StageStore(1)
    \/ StageFileChanged(1)
    \/ StageEnqueue(1)
    \/ BackupAllCount(1)
    \/ ProcessNextContentMissing(1)
    \/ ProcessNextOpen(1)
    \/ BackupFileUpload(1)
    \/ BackupFileCommit(1)
    \/ ProcessNextPop(1)
    \/ Return(1)
    \/ \E path \in {DirPath} \cup Paths, checksum \in {""} \cup Checksums :
          Restore(1, path, checksum)
    \/ \E path \in {DirPath} \cup Paths, failAt \in RestoreSteps :
          RestoreFails(1, path, "", failAt)

RestoreSpec == Init /\ [][RestoreNext]_vars

\* CLI mode, one invocation after another, each inside its envelope: open,
\* one command, close; the vault can fail, the local database can be lost
EnvelopeNext ==
    \/ \E operation \in Commands : NewBTApp(1, operation)
    \/ Exit(1)
    \/ persistOperation(1)
    \/ \E path \in EnvelopePaths : Runs(1, "AddDirectory") /\ AddDirectory(1, path)
    \/ \E f \in Paths : Runs(1, "StageFiles") /\ StageBegin(1, f)
    \/ StageStore(1)
    \/ StageEnqueue(1)
    \/ (pc[1] = "idle" => Runs(1, "BackupAll")) /\ BackupAllCount(1)
    \/ ProcessNextOpen(1)
    \/ BackupFileUpload(1)
    \/ BackupFileUploadFails(1)
    \/ BackupFileCommit(1)
    \/ ProcessNextPop(1)
    \/ \E path \in EnvelopePaths : Runs(1, "GetStatus") /\ GetStatus(1, path)
    \/ \E f \in Paths : Runs(1, "GetFileHistory") /\ GetFileHistory(1, f)
    \/ Runs(1, "GetHistory") /\ GetHistory(1, HistoryLimit)
    \/ \E f \in Paths : Runs(1, "RestoreFiles") /\ Restore(1, f, "")
    \/ Close(1)
    \/ UploadMetadata(1)
    \/ UploadVersion(1)
    \/ UploadFails(1)
    \/ DatabaseLost

EnvelopeSpec == Init /\ [][EnvelopeNext]_vars

\* one encrypted and one unencrypted directory, one command at a time
EncryptedInit ==
    /\ store = newMemoryStore
    /\ fs = newFilesystem
    /\ db = encryptedDatabase
    /\ vault = [c \in Checksums \cup {SHA256(c) : c \in Ciphertexts} |-> NoData]
    /\ pc = [p \in Procs |-> "idle"]
    /\ loc = [p \in Procs |-> NoLocals]
    /\ hist = [staged |-> 0, fsEvents |-> 0, failures |-> 0,
               commits |-> [i \in 1..MaxStages |-> 0],
               failed |-> {}, interrupted |-> {}, overlap |-> FALSE,
               restores |-> 0, storeCalls |-> 0, resets |-> 0]
    /\ app = [p \in Procs |-> NoApp]
    /\ remote = newRemote

EncryptedNext ==
    \/ \E f \in Paths, d \in Data : FsWrite(f, d)
    \/ \E f \in Paths : StageBegin(1, f)
    \/ StageStore(1)
    \/ StageFileChanged(1)
    \/ StageEnqueue(1)
    \/ BackupAllCount(1)
    \/ ProcessNextContentMissing(1)
    \/ ProcessNextOpen(1)
    \/ ~IsEncrypted(db, loc[1].op.DirectoryID) /\ BackupFileUpload(1)
    \/ ~IsEncrypted(db, loc[1].op.DirectoryID) /\ BackupFileCommit(1)
    \/ BackupFileEncryptedUpload(1)
    \/ BackupFileEncryptedCommit(1)
    \/ ProcessNextPop(1)
    \/ Return(1)

EncryptedSpec == EncryptedInit /\ [][EncryptedNext]_vars

\* the envelope on a FileSystemVault whose second metadata write may fail
MetadataNext ==
    \/ EnvelopeNext
    \/ UploadVersionFails(1)

MetadataSpec == Init /\ [][MetadataNext]_vars

\* ================================================================ claims
QueueSeqs(st) == {st.queue[i].seq : i \in 1..Len(st.queue)}

QueueChecksums(st) == {st.queue[i].Snapshot.ContentID : i \in 1..Len(st.queue)}

StagedOp(i) == CHOOSE op \in {store.queue[k] : k \in 1..Len(store.queue)} : op.seq = i

\* C1: in every reachable state the bytes of the checksum named by every
\* queued operation's snapshot.contentId are present in the byte store.
C1_QueuedContentPresent ==
    \A c \in QueueChecksums(store) : store.content[c] # NoData

\* C2: a Stage call that fails with FileChanged leaves the queue and every
\* checksum's reference count as they were.
C2_FileChangedKeepsQueueAndRefCounts ==
    [][\A p \in Procs :
         (pc[p] = "stage_restat" /\ pc'[p] = "done"
              /\ loc'[p].result = ErrFileChanged)
         => (store'.queue = store.queue /\ store'.refCount = store.refCount)]_vars

\* C3: when the ProcessNext callback succeeds, exactly the head entry is
\* removed, its checksum's reference count decreases by one, and the bytes
\* are deleted iff no remaining queue entry references that checksum.
C3_SuccessRemovesHead ==
    [][\A p \in Procs :
         (pc[p] = "pn_pop" /\ pc'[p] = "ba_loop")
         => LET op == loc[p].op
                c == loc[p].op.Snapshot.ContentID
            IN /\ store.queue # <<>>
               /\ store.queue[1] = op
               /\ store'.queue = Tail(store.queue)
               /\ store'.refCount[c] = store.refCount[c] - 1
               /\ (store'.content[c] = NoData) <=> (c \notin QueueChecksums(store'))]_vars

\* C4: when the callback returns an error, the queue, the reference counts
\* and the byte store are unchanged and ProcessNext returns that same error.
C4_CallbackErrorRetainsHead ==
    [][\A p \in Procs :
         (pc[p] \in {"cb_upload", "cb_commit"} /\ pc'[p] = "done")
         => /\ store' = store
            /\ loc'[p].cbErr # ErrNil
            /\ loc'[p].pnErr = loc'[p].cbErr]_vars

\* a callback has failed and its operation is still the head of the queue
C4_Witness ==
    \E p \in Procs :
        /\ pc[p] = "done"
        /\ loc[p].cbErr # ErrNil
        /\ store.queue # <<>>
        /\ store.queue[1] = loc[p].op

\* C5 (as claimed): the callback completes successfully at most once per
\* staged operation, for every interleaving of ProcessNext and Stage calls.
C5_AtMostOnceCommit ==
    \A i \in 1..MaxStages : hist.commits[i] <= 1

\* C5 (amended): the callback completes successfully at most once per staged
\* operation as long as no ProcessNext call peeks the queue while another
\* one is between its peek and its removal; Stage calls interleave freely.
C5_AtMostOnceCommitSerialDrain ==
    ~hist.overlap => \A i \in 1..MaxStages : hist.commits[i] <= 1

\* an operation was committed once and removed while a Stage call is running
C5_Witness ==
    /\ ~hist.overlap
    /\ hist.commits[1] = 1
    /\ 1 \notin QueueSeqs(store)
    /\ \E p \in Procs : pc[p] \in InStage

\* C6: between the moment a Stage call adds its bytes and the moment it
\* appends its entry or undoes the addition, no other call modifies the store.
C6_StageIsOneCriticalSection ==
    [][\A p \in Procs :
         (pc[p] = "stage_restat" /\ pc'[p] = "stage_restat")
         => store' = store]_vars

\* C7: an operation leaves the queue only after the callback succeeded for
\* it, and an operation whose callback failed is in the queue, with its
\* bytes, when the next drain starts.
C7_RetainedUntilCallbackSuccess ==
    /\ \A i \in 1..hist.staged :
          i \notin QueueSeqs(store) => hist.commits[i] >= 1
    /\ (\E p \in Procs : pc[p] = "pn_peek")
          => \A i \in hist.failed :
                hist.commits[i] = 0
                => /\ i \in QueueSeqs(store)
                   /\ store.content[StagedOp(i).Snapshot.ContentID] # NoData

\* a snapshot row that records the staged snapshot for the same file
Committed(d, op) ==
    \E f \in GetFileByDirectoryAndName(d, op.DirectoryID, op.RelativePath) :
        \E k \in 1..Len(d.snapshots) :
            /\ d.snapshots[k].FileID = f.ID
            /\ snapshotsEqual(d.snapshots[k], op.Snapshot)

\* C8: for every operation processed by backupAll, the vault upload (when
\* one is performed) completes before the metadata commit begins, and the
\* commit completes before the entry is removed from the queue.
C8_UploadCommitRemoveOrder ==
    [][\A p \in Procs :
         /\ (pc[p] = "cb_commit" /\ pc'[p] = "pn_pop" /\ loc[p].uploaded)
              => vault[loc[p].op.Snapshot.ContentID] = loc[p].data
         /\ (pc[p] = "pn_pop" /\ pc'[p] = "ba_loop")
              => Committed(db, loc[p].op)]_vars

\* an operation was uploaded, committed and then removed
C8_Witness ==
    \E p \in Procs :
        /\ pc[p] = "ba_loop"
        /\ loc[p].uploaded
        /\ loc[p].op.seq \notin QueueSeqs(store)

\* C9: if processing stops after an entry's commit and before its removal,
\* the next drain re-commits it without inserting a second FileSnapshot and
\* then removes it.
C9_RecommitAfterInterrupt ==
    [][\A p \in Procs :
         /\ (pc[p] = "pn_peek" /\ pc'[p] = "done")
              => Peek(store).seq \notin hist.interrupted
         /\ (pc[p] = "cb_commit" /\ pc'[p] = "pn_pop"
                /\ loc[p].op.seq \in hist.interrupted)
              => db'.snapshots = db.snapshots
         /\ (pc[p] = "pn_pop" /\ pc'[p] = "ba_loop"
                /\ loc[p].op.seq \in hist.interrupted)
              => loc[p].op.seq \notin QueueSeqs(store')]_vars

BackupAllReturned(p) ==
    /\ pc[p] = "done"
    /\ loc[p].call = "BackupAll"

\* C11: after BackupAll returns success the staging queue is empty, the
\* reference-count map is empty and the content-byte store is empty.
C11_BackupAllLeavesStagingEmpty ==
    \A p \in Procs :
        (BackupAllReturned(p) /\ loc[p].result = ErrNil)
        => /\ store.queue = <<>>
           /\ \A c \in Checksums : store.refCount[c] = 0
           /\ \A c \in Checksums : store.content[c] = NoData
           /\ store.currentSize = 0

\* BackupAll has returned success after committing and removing two entries
C11_Witness ==
    \E p \in Procs :
        /\ BackupAllReturned(p)
        /\ loc[p].result = ErrNil
        /\ loc[p].count = 2

\* the stat fields Stage is to compare before and after the read
ComparedFields == {"Size", "Mode", "ModTime", "Ctime", "UID", "GID"}

StatChanged(p) ==
    \E field \in ComparedFields :
        loc[p].stat1[field] # ExtractStatData(fs[loc[p].path])[field]

\* C12: if the size, mode, mtime, ctime, uid or gid seen after the read
\* differs from the value seen before it, Stage fails with FileChanged and
\* appends nothing; an entry is appended only when the two stats match.
C12_StatChangeFailsStage ==
    [][\A p \in Procs :
         (pc[p] = "stage_restat" /\ pc'[p] = "done")
         => /\ StatChanged(p) => /\ loc'[p].result = ErrFileChanged
                                 /\ store'.queue = store.queue
            /\ store'.queue # store.queue => ~StatChanged(p)]_vars

\* a Stage call failed with FileChanged when only the group id had moved
C12_Witness ==
    \E p \in Procs :
        /\ pc[p] = "done"
        /\ loc[p].result = ErrFileChanged
        /\ fs[loc[p].path].gid # loc[p].stat1.GID
        /\ fs[loc[p].path].ctime = loc[p].stat1.Ctime

\* the commit the callback is about to make, and the same commit repeated
\* with the snapshot as it was, or re-identified as backupFile would
FirstCommit(p) ==
    CreateFileSnapshotAndContent(db, loc[p].op.DirectoryID, loc[p].op.RelativePath,
                                 Identified(db, loc[p].op.Snapshot), "none")

SecondCommits(p) ==
    {CreateFileSnapshotAndContent(FirstCommit(p).db, loc[p].op.DirectoryID,
                                  loc[p].op.RelativePath, snapshot, "none") :
        snapshot \in {Identified(db, loc[p].op.Snapshot),
                      Identified(FirstCommit(p).db, loc[p].op.Snapshot)}}

\* C13: createFileSnapshotAndContent called twice in a row with the same
\* directory id, relative path and snapshot: the second call succeeds and
\* leaves the store as the first call left it (no further File, Content or
\* FileSnapshot row, the same currentSnapshotId).
C13_CommitIdempotent ==
    \A p \in Procs :
        (pc[p] = "cb_commit" /\ FirstCommit(p).err = ErrNil)
        => \A second \in SecondCommits(p) :
              /\ second.err = ErrNil
              /\ second.db = FirstCommit(p).db

\* an interrupted command committed an operation, the next command
\* committed it again, and the file still has a single snapshot
C13_Witness ==
    \E i \in 1..MaxStages :
        /\ hist.commits[i] = 2
        /\ Len(db.snapshots) = 1
        /\ Cardinality(db.files) = 1

\* the file row the pending commit is for, and that file's current snapshot
CommitTarget(p) ==
    GetFileByDirectoryAndName(db, loc[p].op.DirectoryID, loc[p].op.RelativePath)

\* equal in contentId, size, permissions, uid, gid, mtime, ctime, birthTime
EqualButForAtime(a, b) ==
    /\ a.ContentID = b.ContentID
    /\ a.Size = b.Size
    /\ a.Permissions = b.Permissions
    /\ a.Uid = b.Uid
    /\ a.Gid = b.Gid
    /\ a.ModifiedAt = b.ModifiedAt
    /\ a.ChangedAt = b.ChangedAt
    /\ a.BornAt = b.BornAt

\* C14: when the incoming snapshot equals the file's current snapshot in
\* contentId, size, permissions, uid, gid, mtime, ctime and birthTime, the
\* commit inserts no FileSnapshot and leaves currentSnapshotId alone,
\* whatever atime, id and createdAt are.
C14_AtimeExcluded ==
    \A p \in Procs :
        \A file \in (IF pc[p] = "cb_commit" THEN CommitTarget(p) ELSE {}) :
            (/\ file.CurrentSnapshotID # NoSnapshotID
             /\ EqualButForAtime(GetFileSnapshotByID(db, file.CurrentSnapshotID),
                                 loc[p].op.Snapshot))
            => /\ FirstCommit(p).db.snapshots = db.snapshots
               /\ FirstCommit(p).db.files = db.files

\* C15: createFileSnapshotAndContent is all-or-nothing: when it returns an
\* error, whichever statement failed, no File, Content or FileSnapshot
\* insert and no currentSnapshotId update of that call is visible.
C15_CommitAllOrNothing ==
    [][\A p \in Procs :
         (pc[p] = "cb_commit" /\ pc'[p] = "done" /\ loc'[p].cbErr # ErrNil)
         => db' = db]_vars

\* the commit of a new file failed at its last statement but one, after the
\* File, Content and FileSnapshot inserts, and the store holds none of them
C15_Witness ==
    \E p \in Procs :
        /\ pc[p] = "done"
        /\ loc[p].cbErr = Wrap("recording backup in database",
                               <<"updating file current snapshot">>)
        /\ db.files = {}
        /\ db.content = {}
        /\ db.snapshots = <<>>

\* the rows of the FileSnapshot table
SnapshotRows(d) == {d.snapshots[k] : k \in 1..Len(d.snapshots)}

\* C16: every File whose currentSnapshotId is set points to a FileSnapshot
\* whose fileId is that File, also after consolidation re-homed the file.
C16_CurrentSnapshotBelongsToFile ==
    \A file \in db.files :
        file.CurrentSnapshotID # NoSnapshotID
        => \E row \in SnapshotRows(db) :
              /\ row.ID = file.CurrentSnapshotID
              /\ row.FileID = file.ID

\* a file backed up under /d/a now lives under a directory created later,
\* under a longer name, with its current snapshot
C16_Witness ==
    \E file \in db.files :
        /\ file.CurrentSnapshotID # NoSnapshotID
        /\ Len(file.Name) > 1
        /\ file.ID[1] # file.DirectoryID

\* C18: after any sequence of addDirectory calls, parents and children in
\* any order, no tracked directory's path is a strict prefix of another's.
C18_NoTrackedPrefix ==
    \A d1, d2 \in db.directories :
        d1 # d2 => ~IsPrefix(d1.Path, d2.Path)

\* the tracked directories strictly under path
ChildrenOf(d, path) ==
    {c \in d.directories : IsPrefix(path, c.Path) /\ c.Path # path}

\* C19: createDirectory(p) with tracked directories strictly under p
\* succeeds and, in one step, deletes each such child row and re-homes each
\* of its files under the new directory, the name prefixed with the child's
\* path relative to p, keeping the file's id, snapshots and
\* currentSnapshotId.
C19_ConsolidatesChildren ==
    [][\A p \in Procs :
         (/\ pc[p] = "idle" /\ pc'[p] = "done"
          /\ loc'[p].call = "AddDirectory"
          /\ FindDirectoryByPath(db, loc'[p].path) = {}
          /\ ChildrenOf(db, loc'[p].path) # {})
         => /\ loc'[p].result = ErrNil
            /\ ChildrenOf(db', loc'[p].path) = {}
            /\ db'.snapshots = db.snapshots
            /\ Cardinality(db'.files) = Cardinality(db.files)
            /\ \E new \in FindDirectoryByPath(db', loc'[p].path) :
                  \A c \in ChildrenOf(db, loc'[p].path) :
                     \A f \in GetFilesByDirectoryID(db, c.ID) :
                         [f EXCEPT !.DirectoryID = new.ID,
                                   !.Name = Rel(loc'[p].path, c.Path) \o f.Name]
                             \in db'.files]_vars

\* /d/a and /d/b were tracked and each had a backed-up file; /d was added
\* and is now the only directory, holding both files under a/x and b/x
C19_Witness ==
    /\ Cardinality(db.directories) = 1
    /\ \E dir \in db.directories :
          /\ dir.Path = <<"d">>
          /\ \E f1, f2 \in GetFilesByDirectoryID(db, dir.ID) :
                /\ f1.Name = <<"a", "x">> /\ f2.Name = <<"b", "x">>
                /\ f1.CurrentSnapshotID # NoSnapshotID
                /\ f2.CurrentSnapshotID # NoSnapshotID
                /\ f1.ID[1] # dir.ID /\ f2.ID[1] # dir.ID /\ f1.ID[1] # f2.ID[1]

\* C20: addDirectory on a path that is already tracked returns success and
\* leaves the Directory and File tables as they were.
C20_AddDirectoryIdempotent ==
    [][\A p \in Procs :
         (/\ pc[p] = "idle" /\ pc'[p] = "done"
          /\ loc'[p].call = "AddDirectory"
          /\ \E dir \in db.directories : dir.Path = loc'[p].path)
         => /\ loc'[p].result = ErrNil
            /\ db'.directories = db.directories
            /\ db'.files = db.files]_vars

\* addDirectory returned success for a tracked directory that holds a file
C20_Witness ==
    \E p \in Procs :
        /\ pc[p] = "done"
        /\ loc[p].call = "AddDirectory"
        /\ loc[p].result = ErrNil
        /\ loc[p].directoryID # NoDirectory
        /\ GetFilesByDirectoryID(db, loc[p].directoryID) # {}

\* each file's current snapshot
CurrentSnapshots(d) == {<<f.ID, f.CurrentSnapshotID>> : f \in d.files}

\* a Content row or a FileSnapshot row was inserted, or a File's
\* currentSnapshotId changed
CommitStateWritten ==
    \/ db'.content # db.content
    \/ db'.snapshots # db.snapshots
    \/ CurrentSnapshots(db') # CurrentSnapshots(db)

C21_LocalBehindRefused ==
    [][\A p \in Procs :
        /\ (app[p].phase = "closed" /\ app'[p].phase # "closed")
             => /\ (app'[p].phase = "failed") <=>
                      (remote.version > MaxBackupOperationID(db))
                /\ (app'[p].phase = "failed") => app'[p].err = ErrLocalBehind
                /\ UNCHANGED <<store, db, vault, remote>>
        /\ (app[p].phase = "failed")
             => /\ UNCHANGED <<store, db, vault, remote>>
                /\ app'[p].phase \in {"failed", "closed"}]_vars

C21_Witness ==
    /\ app[1].phase = "failed"
    /\ app[1].err = ErrLocalBehind
    /\ remote.version > MaxBackupOperationID(db)

\* ---------------------------------------------------------------------
\* C22: when an envelope whose operation was persisted finishes closing
\* and the vault did not fail, the db metadata slot holds the snapshot of
\* the local database, finished operation row included, and its version
\* is that operation's id.
C22_UploadCarriesOperationID ==
    [][\A p \in Procs :
        (/\ app[p].phase = "open" /\ Persisted(app[p].op)
         /\ app'[p].phase = "closed"
         /\ hist'.failures = hist.failures)
        => /\ remote'.version = app[p].op.ID
           /\ remote'.metadata.present
           /\ remote'.metadata.bytes = db'
           /\ db'.operations[app[p].op.ID].FinishedAt # NoTime]_vars

C22_Witness ==
    /\ app[1].phase = "closed"
    /\ remote.metadata.present
    /\ remote.metadata.bytes = db
    /\ remote.version = 1
    /\ MaxBackupOperationID(db) = 1

\* ---------------------------------------------------------------------
\* C23: the db metadata version in the vault never decreases, and every
\* upload that completes carries a version strictly greater than the one
\* stored before it.
C23_VersionIncreases ==
    [][/\ remote'.version >= remote.version
       /\ \A p \in Procs :
            (pc[p] = "close_version" /\ pc'[p] # "close_version")
            => remote'.version > remote.version]_vars

C23_Witness ==
    /\ remote.version = 2
    /\ hist.resets = 0

\* ---------------------------------------------------------------------
\* C24: an invocation whose command is stageFiles, getStatus,
\* getFileHistory, getHistory or restore creates no BackupOperation row and
\* uploads nothing to the vault's metadata, from open to close.
C24_ReadCommandsLeaveNoRecord ==
    [][\A p \in Procs :
        (/\ app[p].phase = "open"
         /\ app[p].command \in {"StageFiles", "GetStatus", "GetFileHistory",
                                "GetHistory", "RestoreFiles"})
        => /\ db'.operations = db.operations
           /\ remote' = remote
           /\ app'[p].phase = "open" => app'[p].op.ID = 0]_vars

C24_Witness ==
    /\ app[1].phase = "open"
    /\ app[1].command = "StageFiles"
    /\ pc[1] = "done"
    /\ loc[1].result = ErrNil
    /\ db.operations # <<>>

\* ---------------------------------------------------------------------
\* C25: when Close finishes the row of a persisted operation, the row has
\* finishedAt set, and its status is success if the command succeeded and
\* error if it failed.
C25_StatusReflectsOutcome ==
    [][\A p \in Procs :
        (/\ pc[p] = "done" /\ pc'[p] # "done"
         /\ app[p].phase = "open" /\ Persisted(app[p].op))
        => LET row == db'.operations[app[p].op.ID]
           IN  /\ row.FinishedAt # NoTime
               /\ row.Status = IF loc[p].result = ErrNil THEN "success"
                                                         ELSE "error"]_vars

\* ---------------------------------------------------------------------
\* C26: a Stage call that fails with StagingFull removes the bytes under
\* its checksum only if its own StoreContent created them; bytes that were
\* there before, their reference count and the queue entries referencing
\* them stay in the store.
C26_StagingFullUndoesOwnContent ==
    [][\A p \in Procs :
        (pc[p] = "stage_restat" /\ pc'[p] = "done"
         /\ loc'[p].result = ErrStagingFull)
        => /\ store'.queue = store.queue
           /\ IF loc[p].created
              THEN store'.content[loc[p].checksum] = NoData
              ELSE /\ store'.content[loc[p].checksum]
                        = store.content[loc[p].checksum]
                   /\ store'.refCount[loc[p].checksum]
                        = store.refCount[loc[p].checksum]]_vars

\* ---------------------------------------------------------------------
\* the byte budget left when the Stage call of p began: the call's own
\* StoreContent is taken back out of the current size
Remaining(p) ==
    MaxSize - (ContentSize(store) - (IF loc[p].created THEN loc[p].size ELSE 0))

\* the Stage call of p returns, its file unchanged since the first stat
StageDecides(p) ==
    /\ pc[p] = "stage_restat" /\ pc'[p] = "done"
    /\ loc'[p].result # ErrFileChanged

\* C27 as stated: a Stage of a file whose size equals the remaining budget
\* succeeds, one of a file that exceeds it by one byte fails with
\* StagingFull.
C27_BudgetBoundary ==
    [][\A p \in Procs :
        StageDecides(p)
        => /\ loc[p].size = Remaining(p) => loc'[p].result = ErrNil
           /\ loc[p].size = Remaining(p) + 1
                => loc'[p].result = ErrStagingFull]_vars

\* C27, amended: the same for a file whose bytes are not already in the
\* staging store; deduplicated bytes add nothing to the budget and are
\* staged whatever their size.
C27_BudgetBoundaryNewContent ==
    [][\A p \in Procs :
        StageDecides(p)
        => /\ loc[p].size = Remaining(p) => loc'[p].result = ErrNil
           /\ (loc[p].size = Remaining(p) + 1 /\ loc[p].created)
                => loc'[p].result = ErrStagingFull
           /\ ~loc[p].created => loc'[p].result = ErrNil]_vars

C27_Witness ==
    /\ pc[1] = "done"
    /\ loc[1].call = "Stage"
    /\ loc[1].result = ErrNil
    /\ loc[1].created
    /\ loc[1].size = MaxSize
    /\ ContentSize(store) = MaxSize

\* ---------------------------------------------------------------------
\* a putContent of caller p returns in this step
PutReturns(p) ==
    /\ pc[p] \in {"idle", "put_copy"} /\ pc'[p] = "done"
    /\ loc'[p].call = "PutContent"

\* C28: a putContent whose checksum, bytes and size were already put
\* returns success and leaves the vault as the first call left it.
C28_PutContentIdempotent ==
    [][\A p \in Procs :
        (/\ PutReturns(p)
         /\ vault[loc'[p].checksum] = loc'[p].data
         /\ DataSize(loc'[p].data) = loc'[p].size
         /\ hist'.failures = hist.failures)
        => /\ loc'[p].result = ErrNil
           /\ vault' = vault]_vars

C28_Witness ==
    /\ pc[1] = "done"
    /\ loc[1].call = "PutContent"
    /\ loc[1].written = 0
    /\ loc[1].result = ErrNil
    /\ vault[loc[1].checksum] = loc[1].data

\* ---------------------------------------------------------------------
\* C29: a putContent whose reader yields more or fewer bytes than the
\* declared size returns SizeMismatch, and no step of it changes an
\* object of the vault; its temp file is gone when it returns.
C29_SizeMismatchRejected ==
    [][\A p \in Procs :
        /\ (PutReturns(p) /\ DataSize(loc'[p].data) # loc'[p].size
             /\ hist'.failures = hist.failures)
            => /\ loc'[p].result = ErrSizeMismatch
               /\ vault' = vault
               /\ remote'.tmp[p] = NoData
        /\ (/\ loc[p].call = "PutContent" /\ pc[p] = "put_copy"
             /\ DataSize(loc[p].data) # loc[p].size
             /\ <<pc[p], loc[p], remote.tmp[p]>> # <<pc'[p], loc'[p], remote'.tmp[p]>>)
            => vault' = vault]_vars

C29_Witness ==
    /\ pc[1] = "done"
    /\ loc[1].call = "PutContent"
    /\ loc[1].result = ErrSizeMismatch
    /\ loc[1].written = DataSize(loc[1].data)
    /\ loc[1].written > loc[1].size
    /\ vault[loc[1].checksum] = NoData

\* ---------------------------------------------------------------------
\* C30: at every moment each object of the vault is absent or holds the
\* complete bytes of its checksum, and every getContent observed one of
\* the two; puts that are in progress, failed or killed included.
C30_ReadersSeeAbsentOrComplete ==
    /\ \A c \in Checksums :
          vault[c] = NoData \/ (vault[c] \in Data /\ SHA256(vault[c]) = c)
    /\ \A p \in Procs :
          (loc[p].call = "GetContent" /\ pc[p] = "done")
          => \/ loc[p].result = ErrContentNotFound /\ loc[p].value = <<>>
             \/ /\ loc[p].result = ErrNil
                /\ \E d \in Data : loc[p].value = <<d>> /\ SHA256(d) = loc[p].checksum

C30_Witness ==
    /\ pc[1] = "put_copy"
    /\ remote.tmp[1] \notin Data \cup {NoData, ""}
    /\ pc[2] = "done"
    /\ loc[2].call = "GetContent"
    /\ loc[2].checksum = loc[1].checksum
    /\ loc[2].result = ErrContentNotFound

\* ---------------------------------------------------------------------
\* a Restore call of caller p returns in this step
RestoreReturns(p) ==
    /\ pc[p] = "idle" /\ pc'[p] = "done"
    /\ loc'[p].call = "Restore"

\* the snapshot rows of the metadata store
AllSnapshots == {db.snapshots[k] : k \in 1..Len(db.snapshots)}

\* the output paths of a restore of source file f: the version asked for,
\* or else the current snapshot of f in the tracked directory /d
TargetsOf(f, checksum) ==
    IF checksum # ""
    THEN {f \o <<checksum, "btrestored">>}
    ELSE {f \o <<row.ContentID, "btrestored">> :
            row \in {r \in AllSnapshots :
                       \E file \in db.files :
                          /\ file.DirectoryID = DirID
                          /\ DirPath \o file.Name = f
                          /\ file.CurrentSnapshotID = r.ID}}

\* C31: a restore whose output path already exists fails with
\* OutputExists and changes no file; no restore changes a file that
\* already exists.
C31_OutputExistsRefused ==
    [][\A p \in Procs :
        RestoreReturns(p)
        => /\ \A o \in RestorePaths : fs[o].data # NoData => fs'[o] = fs[o]
           /\ loc'[p].path \in Paths
                => \A out \in TargetsOf(loc'[p].path, loc'[p].checksum) :
                      fs[out].data # NoData
                      => /\ loc'[p].result = ErrOutputExists
                         /\ fs' = fs]_vars

C31_Witness ==
    /\ pc[1] = "done"
    /\ loc[1].call = "Restore"
    /\ loc[1].result = ErrOutputExists

\* ---------------------------------------------------------------------
\* the source file f has not been written since its current snapshot was
\* staged
Unmodified(f) ==
    \E row \in AllSnapshots :
        /\ \E file \in db.files : /\ file.DirectoryID = DirID
                                   /\ DirPath \o file.Name = f
                                   /\ file.CurrentSnapshotID = row.ID
        /\ row.ModifiedAt = fs[f].mtime
        /\ row.ChangedAt = fs[f].ctime

C38_FailedRestoreLeavesNoOutput ==
    [][\A p \in Procs :
        (/\ RestoreReturns(p)
         /\ loc'[p].result # ErrNil
         /\ loc'[p].path \in Paths)
        => \A o \in RestorePaths : fs[o].data = NoData => fs'[o].data = NoData]_vars

\* ---------------------------------------------------------------------
\* the number of queue entries whose snapshot names the checksum
QueueEntries(st, checksum) ==
    Cardinality({i \in 1..Len(st.queue) : st.queue[i].Snapshot.ContentID = checksum})

\* C34: while no Stage call is in progress, each checksum's reference
\* count equals the number of queue entries naming it (none when no entry
\* names it).
C34_RefCountsMatchQueue ==
    (\A p \in Procs : pc[p] \notin InStage)
    => \A c \in StoreKeys : store.refCount[c] = QueueEntries(store, c)

\* ---------------------------------------------------------------------
\* C36: ProcessNext hands the callback the oldest entry still in the
\* queue, the commit is of that entry, and on success that same entry is
\* the one removed: operations are committed in the order they were staged.
C36_OldestEntryFirst ==
    [][\A p \in Procs :
        /\ (pc[p] = "pn_peek" /\ pc'[p] = "cb_upload")
             => /\ loc'[p].op = store.queue[1]
                /\ \A j \in QueueSeqs(store) : loc'[p].op.seq <= j
        /\ (pc[p] = "cb_commit" /\ pc'[p] = "pn_pop")
             => \A j \in QueueSeqs(store) : loc[p].op.seq <= j
        /\ (pc[p] = "pn_pop" /\ pc'[p] \in {"ba_loop", "done"})
             => /\ store.queue # <<>>
                /\ store.queue[1] = loc[p].op
                /\ store'.queue = Tail(store.queue)]_vars

\* the second of two staged operations has been committed and removed
C36_Witness ==
    /\ hist.staged = 2
    /\ hist.commits[2] > 0
    /\ store.queue = <<>>
    /\ pc[1] = "ba_loop"

\* ---------------------------------------------------------------------
\* the count BackupAll holds for caller p before a step
CountBefore(p) == IF pc[p] = "idle" THEN 0 ELSE loc[p].count

\* C39: BackupAll's count goes up by one exactly in the steps in which the
\* call removes a committed entry from the queue, so the count it returns
\* (with or without an error) is the number of entries it committed and
\* removed.
C39_CountIsEntriesRemoved ==
    [][\A p \in Procs :
        (loc'[p].call = "BackupAll" /\ pc'[p] # pc[p])
        => /\ loc'[p].count \in {CountBefore(p), CountBefore(p) + 1}
           /\ (loc'[p].count = CountBefore(p) + 1)
                <=> (Len(store'.queue) = Len(store.queue) - 1)
           /\ (loc'[p].count = CountBefore(p) + 1)
                => /\ store.queue[1] = loc[p].op
                   /\ hist.commits[loc[p].op.seq] > 0
           /\ Len(store'.queue) \in {Len(store.queue), Len(store.queue) - 1}]_vars

\* BackupAll returned an error after it had processed one entry
C39_Witness ==
    /\ pc[1] = "done"
    /\ loc[1].call = "BackupAll"
    /\ loc[1].result # ErrNil
    /\ loc[1].count = 1

\* ---------------------------------------------------------------------
\* caller p is inside a BackupAll call
InBackupAll(p) == pc[p] \in {"ba_loop", "pn_peek"} \cup InProcessNext

\* C40: BackupAll terminates: every iteration of its drain loop removes one
\* entry from the queue or makes BackupAll return an error, the queue
\* never grows during the call, and a call that was started returns.
C40_BackupAllTerminates ==
    /\ [][\A p \in Procs :
            (InBackupAll(p) /\ loc[p].call = "BackupAll")
            => /\ Len(store'.queue) <= Len(store.queue)
               /\ (pc[p] # "ba_loop" /\ pc'[p] = "ba_loop")
                    => Len(store'.queue) = Len(store.queue) - 1
               /\ (pc[p] # "ba_loop" /\ pc'[p] = "done")
                    => loc'[p].result # ErrNil
               /\ pc'[p] \in {"done", "ba_loop", "pn_peek"} \cup InProcessNext]_vars
    /\ \A p \in Procs :
          (InBackupAll(p) /\ loc[p].call = "BackupAll")
          ~> (pc[p] = "done" /\ loc[p].call = "BackupAll")

\* BackupAll has drained a queue of two entries
C40_Witness ==
    /\ pc[1] = "done"
    /\ loc[1].call = "BackupAll"
    /\ loc[1].result = ErrNil
    /\ loc[1].count = 2

\* ---------------------------------------------------------------------
\* C35: when BackupAll is about to commit a staged operation, the
\* directoryID recorded in the operation is the id of a Directory row.
C35_StagedDirectoryExists ==
    \A p \in Procs :
        pc[p] = "cb_commit"
        => \E dir \in db.directories : dir.ID = loc[p].op.DirectoryID

\* ---------------------------------------------------------------------
\* the version supplied with the put that wrote these bytes:
\* uploadMetadata(tmpPath, a.op.ID), the id of the operation the snapshot
\* was finished with, which is the largest id in it
VersionSuppliedWith(bytes) == MaxBackupOperationID(bytes)

\* C37: while no put is between its two writes, the version of the db
\* metadata slot is the version that was supplied with the put whose bytes
\* the slot holds, also after a put that failed or was interrupted.
C37_BytesAndVersionFromOnePut ==
    (\A p \in Procs : pc[p] # "close_version")
    => (remote.metadata.present
        => GetMetadataVersion(remote) = VersionSuppliedWith(remote.metadata.bytes))

\* ---------------------------------------------------------------------
\* C33: every Content row with encryptedContentId set references an
\* existing Content row whose own encryptedContentId is unset, and its id
\* differs from its encryptedContentId.
C33_VirtualContentPointsAtReal ==
    \A v \in db.encrypted :
        /\ v.ID \in db.content
        /\ v.EncryptedContentID \in db.content
        /\ \A w \in db.encrypted : w.ID # v.EncryptedContentID
        /\ v.ID # v.EncryptedContentID

\* the same bytes were backed up from the encrypted directory (a virtual
\* row and its ciphertext row) and other bytes from the unencrypted one
C33_Witness ==
    /\ [ID |-> "cx", EncryptedContentID |-> SHA256(Encrypt("x"))] \in db.encrypted
    /\ vault[SHA256(Encrypt("x"))] = Encrypt("x")
    /\ "cy" \in db.content
    /\ ~FindVirtualContent(db, "cy")
    /\ store.queue = <<>>

====
